---- MODULE Spec2Model ----
(***************************************************************************)
(* SWE-Compass evaluation orchestration: the per-track worker functions of *)
(* swecompass/evaluators/tasks.py and their skip / lock protocol on the    *)
(* shared work root, the process-pool engine, the functional and           *)
(* performance gates, the patch-coverage score, the result summarizer,    *)
(* the log parsers, the Stage Runner of the docker tracks, the naming of   *)
(* containers, the code-understanding judge, the dispatcher's routing and  *)
(* the termination of a batch.                                             *)
(***************************************************************************)
EXTENDS Integers, Sequences, FiniteSets, TLC

(***************************************************************************)
(* Bounds of the model.                                                    *)
(***************************************************************************)
NumWorkers == 2
MaxDispatch == 2

Workers == 1..NumWorkers

(***************************************************************************)
(* Source tags routed by EvaluatorDispatcher.dispatch.                     *)
(***************************************************************************)
Tracks ==
  {"selected", "performance_optimization", "configuration_deployment",
   "code_understanding", "test_case_generation"}

LockTracks == {"selected", "performance_optimization"}

\* An item lives on disk under <work_root>/<source>/<instance_id>.  The
\* model holds one instance_id per source tag: no evaluator reads or writes
\* below another instance's directory, so a key is the source tag.
Keys == Tracks

\* Files of one instance directory.  "dir" is the directory itself, "lock"
\* is .lock, "parsed" is parsed_test_patch.json and "result" is the track's
\* result artifact (result.json, <instance_id>.json or
\* patch_coverage_result.json).
Files == {"dir", "lock", "parsed", "result"}

\* Scratch files a container track writes under tmp_dir, in source order.
ScratchOrder ==
  <<"test_patch", "code_patch", "pre_test_cmd", "pass_to_pass", "fail_to_pass">>

ScratchPrefix(n) == {ScratchOrder[j] : j \in 1..n}

VARIABLES
  fs,          \* fs[k]: the files of instance directory k that exist
  pc,          \* pc[w]: position of worker w inside its evaluator function
  item,        \* item[w]: the key of the WorkItem worker w was dispatched for
  scratch,     \* scratch[w]: the scratch files of w's current call (each
               \* call names them with a fresh uuid) that exist
  outcome,     \* outcome[w]: how the last call ended: none/skip/ran/raised
  dispatches,  \* number of dispatch calls made so far
  launches,    \* history: launches[k] counts evaluation runs started for k
  snap,        \* history: snap[w] is fs[item[w]] at the time of the dispatch
  touched,     \* history: worker w created, overwrote or deleted a file of k
  ran,         \* history: worker w started the evaluation of its item
  entered,     \* history: entered[k] counts the workers past k's skip checks
  locked       \* history: the lock write of worker w succeeded

taskVars ==
  <<fs, pc, item, scratch, outcome, dispatches, launches, snap, touched, ran,
    entered, locked>>

(***************************************************************************)
(* State of one ExecutionEngine.run call.                                  *)
(***************************************************************************)
VARIABLES
  eN,          \* len(dataset)
  eW,          \* context.max_workers
  eFails,      \* the items whose dispatch raises
  ePc,         \* position of run: submit / collect / returned / raised
  eSubmitted,  \* number of executor.submit calls made
  fut,         \* fut[i]: state of the future of item i
  calls,       \* calls[i]: number of times dispatch was invoked for item i
  collected    \* the futures as_completed has yielded so far

engineVars == <<eN, eW, eFails, ePc, eSubmitted, fut, calls, collected>>

(***************************************************************************)
(* State of one functional evaluation (selected track): the evaluator's    *)
(* gate and the summarizer's score for the instance.                       *)
(***************************************************************************)
VARIABLES
  gP,          \* PASS_TO_PASS as loaded from --pass-to-pass-file
  gF,          \* FAIL_TO_PASS as loaded from --fail-to-pass-file
  gParsed,     \* parsed_test_patch.json: [exists, map]
  gPc,         \* staged / written / scored
  gResult,     \* result.json: [run_state, p2p, f2p]
  gScore       \* score of the instance in the summarizer's record

gateVars == <<gP, gF, gParsed, gPc, gResult, gScore>>

(***************************************************************************)
(* State of one call of the performance gate.                              *)
(***************************************************************************)
VARIABLES
  fT1,         \* timing map of the baseline stage (parsed_test.json)
  fT2,         \* timing map of the patched stage (parsed_test_patch.json)
  fP,          \* PASS_TO_PASS
  fF,          \* FAIL_TO_PASS
  fPc,         \* loaded / checked
  fOut         \* the pair returned: [pass_ok, fail_ok]

perfVars == <<fT1, fT2, fP, fF, fPc, fOut>>

(***************************************************************************)
(* State of one patch-coverage evaluation (test_case_generation track).    *)
(***************************************************************************)
VARIABLES
  cEnv,        \* ok / no_patch_file / no_coverage_dir
  cPatch,      \* related lines of the patch: file -> sequence of line numbers
  cReport,     \* coverage report: file -> [html, line_coverage]
  cPc,         \* ready / calculated / written / scored
  cResult,     \* the result of calculate_patch_coverage
  cScore       \* summarizer score, in units of 1/10000

covVars == <<cEnv, cPatch, cReport, cPc, cResult, cScore>>

(***************************************************************************)
(* State of one ResultSummarizer.run call.                                 *)
(***************************************************************************)
VARIABLES
  sData,       \* the dataset: a sequence of rows, each with its artifact
  sPc,         \* start / collected / saved / reported
  sRaw,        \* detailed_results, the list _collect_and_score returns
  sFile,       \* the records written to raw_data.jsonl
  sReport      \* the final report written to result.json

sumVars == <<sData, sPc, sRaw, sFile, sReport>>

(***************************************************************************)
(* State of one call of a log parser.                                      *)
(***************************************************************************)
VARIABLES
  pParser,     \* the parser get_parse_log (or parse_log's repo branch) chose
  pLog,        \* the log: a sequence of lines
  pIdx,        \* number of lines the parser's loop has consumed
  pMap,        \* status_map
  pSeen,       \* protobuf: seen; element_plus: all_cases
  pErrs,       \* element_plus: stderr_errors
  pPc          \* loop / done

parseVars == <<pParser, pLog, pIdx, pMap, pSeen, pErrs, pPc>>

(***************************************************************************)
(* State of one Stage Runner process (eval_executor.py main) of the        *)
(* selected, performance_optimization or configuration_deployment track.   *)
(***************************************************************************)
VARIABLES
  rTrack,      \* the track whose eval_executor.py runs
  rRepo,       \* --repo_name, the repo_key, as a sequence of name parts
  rExists,     \* docker ps -a already lists --container-name
  rHasCmd,     \* the file --test-cmd-file names exists
  rPc,         \* position of main
  rCont,       \* the container: absent / running / removed
  rAcquired,   \* ensure_container returned
  rPolls,      \* admission polls made by ensure_container
  rLoad,       \* <<cpu_usage, mem_usage>> of the last poll
  rSlept,      \* seconds spent in time.sleep by the admission loop
  rCopied,     \* the patch files docker cp has put under /patches
  rStage,      \* the stage run_stage is executing
  rScr,        \* rScr[s]: state of script s inside the container
  rLog,        \* rLog[s]: the lines of the log file script s writes to
  rRc,         \* rRc[st]: the value run_stage returned for stage st
  rParsed,     \* rParsed[st]: the parsed file of st: absent/empty/nonempty
  rResult,     \* result.json of the run
  rCleanup,    \* the cleanup block: none / removed / failed
  rExit        \* how the process ended: none / returned / raised

runVars ==
  <<rTrack, rRepo, rExists, rHasCmd, rPc, rCont, rAcquired, rPolls, rLoad,
    rSlept, rCopied, rStage, rScr, rLog, rRc, rParsed, rResult, rCleanup,
    rExit>>

(***************************************************************************)
(* State of two concurrent eval_selected calls for two WorkItems and of    *)
(* the Stage Runner processes they start.                                  *)
(***************************************************************************)
VARIABLES
  nClock,      \* the wall clock, in whole seconds
  nItem,       \* nItem[w]: the WorkItem of call w: instance_id, repo_key, pull_number
  nPc,         \* nPc[w]: named / ensure / using / done
  nName,       \* nName[w]: the --container-name of w's command line
  nContainers, \* the names docker ps -a lists
  nLost        \* nLost[w]: w's container was removed while w was using it

nameVars == <<nClock, nItem, nPc, nName, nContainers, nLost>>

(***************************************************************************)
(* State of one run_code_understanding call.                               *)
(***************************************************************************)
VARIABLES
  jN,          \* len(questions)
  jPatch,      \* model_patch is not blank
  jIdx,        \* questions judged so far
  jReplies,    \* history: what the judge endpoint did for each question
  jResults,    \* results: one <<q_id, score, reasoning>> per judged question
  jPc,         \* loop / written / returned / raised
  jArtifact    \* the <safe_id>.json file

judgeVars == <<jN, jPatch, jIdx, jReplies, jResults, jPc, jArtifact>>

(***************************************************************************)
(* State of a series of EvaluatorDispatcher.dispatch calls.                *)
(***************************************************************************)
VARIABLES
  dItems,      \* the source entries of the items handed to dispatch
  dIdx,        \* dispatch calls completed
  dCalls,      \* dCalls[i]: the evaluator calls made by the i-th dispatch
  dRaised      \* dRaised[i]: the i-th dispatch raised

routeVars == <<dItems, dIdx, dCalls, dRaised>>

(***************************************************************************)
(* State of the pool workers of one ExecutionEngine.run call on the        *)
(* performance track.                                                      *)
(***************************************************************************)
VARIABLES
  wPc,         \* wPc[i]: position of the worker of item i
  wLeft,       \* wLeft[i]: scripts the Stage Runner of item i has yet to run
  wHang,       \* wHang[i]: the running script outlasts its timeout
  wEnd         \* wEnd[i]: how the worker ended: none / skip / result / error

batchVars == <<wPc, wLeft, wHang, wEnd>>

coreVars ==
  <<taskVars, engineVars, gateVars, perfVars, covVars, sumVars, parseVars>>

vars == <<coreVars, runVars, nameVars, judgeVars, routeVars, batchVars>>

Entry(tr) ==
  CASE tr \in LockTracks -> "check_dir"
    [] tr = "configuration_deployment" -> "cd_check"
    [] tr = "code_understanding" -> "cu_mkdir"
    [] tr = "test_case_generation" -> "ut_mkdir"

TaskInit ==
  /\ fs = [k \in Keys |-> {}]
  /\ pc = [w \in Workers |-> "idle"]
  /\ item = [w \in Workers |-> "selected"]
  /\ scratch = [w \in Workers |-> {}]
  /\ outcome = [w \in Workers |-> "none"]
  /\ dispatches = 0
  /\ launches = [k \in Keys |-> 0]
  /\ snap = [w \in Workers |-> {}]
  /\ touched = [w \in Workers |-> FALSE]
  /\ ran = [w \in Workers |-> FALSE]
  /\ entered = [k \in Keys |-> 0]
  /\ locked = [w \in Workers |-> FALSE]

Finish(w, how) ==
  /\ pc' = [pc EXCEPT ![w] = "done"]
  /\ outcome' = [outcome EXCEPT ![w] = how]

Goto(w, where) ==
  /\ pc' = [pc EXCEPT ![w] = where]
  /\ UNCHANGED outcome

AddFiles(w, new) ==
  /\ fs' = [fs EXCEPT ![item[w]] = @ \cup new]
  /\ touched' = [touched EXCEPT ![w] = TRUE]

StartEvaluation(w) ==
  /\ launches' = [launches EXCEPT ![item[w]] = @ + 1]
  /\ ran' = [ran EXCEPT ![w] = TRUE]

(***************************************************************************)
(* EvaluatorDispatcher.dispatch: a pool worker picks up an item and enters *)
(* the evaluator chosen by the item's source tag.                          *)
(***************************************************************************)
Dispatch(w) ==
  /\ pc[w] \in {"idle", "done"}
  /\ dispatches < MaxDispatch
  /\ dispatches' = dispatches + 1
  /\ \E k \in Keys :
       /\ item' = [item EXCEPT ![w] = k]
       /\ snap' = [snap EXCEPT ![w] = fs[k]]
       /\ pc' = [pc EXCEPT ![w] = Entry(k)]
  /\ outcome' = [outcome EXCEPT ![w] = "none"]
  /\ touched' = [touched EXCEPT ![w] = FALSE]
  /\ ran' = [ran EXCEPT ![w] = FALSE]
  /\ locked' = [locked EXCEPT ![w] = FALSE]
  /\ scratch' = [scratch EXCEPT ![w] = {}]
  /\ UNCHANGED <<fs, launches, entered>>

(***************************************************************************)
(* eval_selected / eval_performance_optimization (the two bodies are the   *)
(* same statement for statement).                                          *)
(***************************************************************************)
SkipIfExists(w, here, file, next) ==
  /\ pc[w] = here
  /\ IF file \in fs[item[w]] THEN Finish(w, "skip") ELSE Goto(w, next)
  /\ UNCHANGED <<fs, item, scratch, dispatches, launches, snap, touched, ran,
               entered, locked>>

\* A variant that leaves out the working-directory check and starts with
\* the result.json check.
CheckDirLeftOut(w) ==
  /\ pc[w] = "check_dir"
  /\ Goto(w, "check_result")
  /\ UNCHANGED <<fs, item, scratch, dispatches, launches, snap, touched, ran,
               entered, locked>>

CheckDir(w) == SkipIfExists(w, "check_dir", "dir", "check_result")

CheckResult(w) == SkipIfExists(w, "check_result", "result", "check_lock")

CheckLock(w) == SkipIfExists(w, "check_lock", "lock", "mkdir")

Mkdir(w) ==
  /\ pc[w] = "mkdir"
  /\ fs' = [fs EXCEPT ![item[w]] = @ \cup {"dir"}]
  /\ touched' = [touched EXCEPT ![w] = @ \/ "dir" \notin fs[item[w]]]
  /\ Goto(w, "write_lock")
  /\ entered' = [entered EXCEPT ![item[w]] = @ + 1]
  /\ UNCHANGED <<item, scratch, dispatches, launches, snap, ran, locked>>

\* lock_file.write_text inside try/except: a failure is only warned about.
WriteLock(w) ==
  /\ pc[w] = "write_lock"
  /\ \/ AddFiles(w, {"lock"}) /\ locked' = [locked EXCEPT ![w] = TRUE]
     \/ UNCHANGED <<fs, touched, locked>>
  /\ Goto(w, "write_scratch")
  /\ UNCHANGED <<item, scratch, dispatches, launches, snap, ran, entered>>

\* The five scratch writes; a write that raises leaves the earlier files
\* behind and control passes to the finally block.
WriteScratch(w) ==
  /\ pc[w] = "write_scratch"
  /\ \E n \in 0..Len(ScratchOrder) :
       /\ scratch' = [scratch EXCEPT ![w] = ScratchPrefix(n)]
       /\ IF n = Len(ScratchOrder)
            THEN Goto(w, "launch")
            ELSE /\ pc' = [pc EXCEPT ![w] = "finally"]
                 /\ outcome' = [outcome EXCEPT ![w] = "raised"]
  /\ UNCHANGED <<fs, item, dispatches, launches, snap, touched, ran,
               entered, locked>>

\* A variant that gives the lock marker up as soon as the subprocess starts.
LaunchReleasing(w) ==
  /\ pc[w] = "launch"
  /\ StartEvaluation(w)
  /\ Goto(w, "running")
  /\ fs' = [fs EXCEPT ![item[w]] = @ \ {"lock"}]
  /\ UNCHANGED <<item, scratch, dispatches, snap, touched, entered, locked>>

\* subprocess.run(cmd): the evaluator subprocess starts.
Launch(w) ==
  /\ pc[w] = "launch"
  /\ StartEvaluation(w)
  /\ Goto(w, "running")
  /\ UNCHANGED <<fs, item, scratch, dispatches, snap, touched,
               entered, locked>>

\* The evaluator subprocess (eval_executor.main) ends: it wrote the parsed
\* status map and result.json, or result.json alone (no parser / parse
\* failure), or it died before writing result.json.
EvaluatorExit(w) ==
  /\ pc[w] = "running"
  /\ \/ AddFiles(w, {"parsed", "result"})
     \/ AddFiles(w, {"result"})
     \/ UNCHANGED <<fs, touched>>
  /\ pc' = [pc EXCEPT ![w] = "finally"]
  /\ outcome' = [outcome EXCEPT ![w] = "ran"]
  /\ UNCHANGED <<item, scratch, dispatches, launches, snap, ran,
               entered, locked>>

\* finally: unlink every scratch file that exists, then the lock file if it
\* exists.
Finally(w) ==
  /\ pc[w] = "finally"
  /\ scratch' = [scratch EXCEPT ![w] = {}]
  /\ fs' = [fs EXCEPT ![item[w]] = @ \ {"lock"}]
  /\ touched' = [touched EXCEPT ![w] = @ \/ "lock" \in fs[item[w]]]
  /\ pc' = [pc EXCEPT ![w] = "done"]
  /\ UNCHANGED <<item, outcome, dispatches, launches, snap, ran,
               entered, locked>>

(***************************************************************************)
(* eval_configuration_deployment                                           *)
(***************************************************************************)
CdCheck(w) == SkipIfExists(w, "cd_check", "parsed", "cd_scratch")

\* No try/finally here: a write that raises propagates at once.
CdWriteScratch(w) ==
  /\ pc[w] = "cd_scratch"
  /\ \E n \in 0..Len(ScratchOrder) :
       /\ scratch' = [scratch EXCEPT ![w] = ScratchPrefix(n)]
       /\ IF n = Len(ScratchOrder)
            THEN Goto(w, "cd_running")
            ELSE Finish(w, "raised")
  /\ UNCHANGED <<fs, item, dispatches, launches, snap, touched, ran,
               entered, locked>>

\* subprocess.run(cmd, capture_output=True): main creates the work
\* directory and either writes parsed_test_patch.json and result.json or
\* dies before them.
CdEvaluator(w) ==
  /\ pc[w] = "cd_running"
  /\ StartEvaluation(w)
  /\ \/ AddFiles(w, {"dir", "parsed", "result"})
     \/ AddFiles(w, {"dir"})
  /\ Goto(w, "cd_cleanup")
  /\ UNCHANGED <<item, scratch, dispatches, snap,
               entered, locked>>

\* Only the pre-test command file is unlinked.
CdCleanup(w) ==
  /\ pc[w] = "cd_cleanup"
  /\ scratch' = [scratch EXCEPT ![w] = @ \ {"pre_test_cmd"}]
  /\ Finish(w, "ran")
  /\ UNCHANGED <<fs, item, dispatches, launches, snap, touched, ran,
               entered, locked>>

(***************************************************************************)
(* run_code_understanding                                                  *)
(***************************************************************************)
\* os.makedirs(out_dir, exist_ok=True), then the early returns for an empty
\* answer or an empty question list.
CuMkdir(w) ==
  /\ pc[w] = "cu_mkdir"
  /\ fs' = [fs EXCEPT ![item[w]] = @ \cup {"dir"}]
  /\ touched' = [touched EXCEPT ![w] = @ \/ "dir" \notin fs[item[w]]]
  /\ \/ Finish(w, "ran")
     \/ Goto(w, "cu_judge")
  /\ UNCHANGED <<item, scratch, dispatches, launches, snap, ran,
               entered, locked>>

\* The loop over the questions: every question is sent to the judge.
CuJudge(w) ==
  /\ pc[w] = "cu_judge"
  /\ StartEvaluation(w)
  /\ Goto(w, "cu_write")
  /\ UNCHANGED <<fs, item, scratch, dispatches, snap, touched,
               entered, locked>>

\* json.dump(details) into <instance_id>.json, opened with mode 'w'.
CuWrite(w) ==
  /\ pc[w] = "cu_write"
  /\ AddFiles(w, {"result"})
  /\ Finish(w, "ran")
  /\ UNCHANGED <<item, scratch, dispatches, launches, snap, ran,
               entered, locked>>

(***************************************************************************)
(* evaluate / run_unit_generation                                          *)
(***************************************************************************)
\* os.makedirs(instance_log_dir, exist_ok=True), then generate_eval_script:
\* an empty script ends the call, otherwise eval.sh and code.patch are
\* written into the instance directory.
UtPrepare(w) ==
  /\ pc[w] = "ut_mkdir"
  /\ fs' = [fs EXCEPT ![item[w]] = @ \cup {"dir"}]
  /\ \/ /\ touched' = [touched EXCEPT ![w] = @ \/ "dir" \notin fs[item[w]]]
        /\ Finish(w, "ran")
     \/ /\ touched' = [touched EXCEPT ![w] = TRUE]
        /\ Goto(w, "ut_run")
  /\ UNCHANGED <<item, scratch, dispatches, launches, snap, ran,
               entered, locked>>

\* execute_cmd(docker run ...)
UtRun(w) ==
  /\ pc[w] = "ut_run"
  /\ StartEvaluation(w)
  /\ Goto(w, "ut_cov")
  /\ UNCHANGED <<fs, item, scratch, dispatches, snap, touched,
               entered, locked>>

\* get_coverage_percentage writes patch_coverage_result.json.
UtCoverage(w) ==
  /\ pc[w] = "ut_cov"
  /\ AddFiles(w, {"result"})
  /\ Finish(w, "ran")
  /\ UNCHANGED <<item, scratch, dispatches, launches, snap, ran,
               entered, locked>>

TaskNext ==
  \E w \in Workers :
    \/ Dispatch(w)
    \/ CheckDir(w)
    \/ CheckResult(w)
    \/ CheckLock(w)
    \/ Mkdir(w)
    \/ WriteLock(w)
    \/ WriteScratch(w)
    \/ Launch(w)
    \/ EvaluatorExit(w)
    \/ Finally(w)
    \/ CdCheck(w)
    \/ CdWriteScratch(w)
    \/ CdEvaluator(w)
    \/ CdCleanup(w)
    \/ CuMkdir(w)
    \/ CuJudge(w)
    \/ CuWrite(w)
    \/ UtPrepare(w)
    \/ UtRun(w)
    \/ UtCoverage(w)

(***************************************************************************)
(* ExecutionEngine.run over a ProcessPoolExecutor.                         *)
(***************************************************************************)
MaxItems == 3
MaxPool == 2

ItemIds == 1..MaxItems

EngineIdle ==
  /\ eN = 0
  /\ eW = 1
  /\ eFails = {}
  /\ ePc = "returned"
  /\ eSubmitted = 0
  /\ fut = [i \in ItemIds |-> "none"]
  /\ calls = [i \in ItemIds |-> 0]
  /\ collected = {}

EngineInit ==
  /\ eN \in 0..MaxItems
  /\ eW \in 1..MaxPool
  /\ eFails \in SUBSET (1..eN)
  /\ ePc = "submit"
  /\ eSubmitted = 0
  /\ fut = [i \in ItemIds |-> "none"]
  /\ calls = [i \in ItemIds |-> 0]
  /\ collected = {}

Running == {i \in ItemIds : fut[i] = "running"}

Queued == {i \in ItemIds : fut[i] = "queued"}

\* executor.submit(EvaluatorDispatcher.dispatch, item, context) for the next
\* element of the dataset; after the last one the as_completed loop starts.
Submit ==
  /\ ePc = "submit"
  /\ IF eSubmitted < eN
       THEN /\ eSubmitted' = eSubmitted + 1
            /\ fut' = [fut EXCEPT ![eSubmitted + 1] = "queued"]
            /\ UNCHANGED ePc
       ELSE /\ ePc' = "collect"
            /\ UNCHANGED <<eSubmitted, fut>>
  /\ UNCHANGED <<eN, eW, eFails, calls, collected>>

\* A free pool process takes the oldest queued call and invokes dispatch.
WorkerStart(i) ==
  /\ fut[i] = "queued"
  /\ \A j \in Queued : i <= j
  /\ Cardinality(Running) < eW
  /\ fut' = [fut EXCEPT ![i] = "running"]
  /\ calls' = [calls EXCEPT ![i] = @ + 1]
  /\ UNCHANGED <<eN, eW, eFails, ePc, eSubmitted, collected>>

\* dispatch returns, or logs and re-raises the evaluator's exception, which
\* the pool stores in the future.
WorkerFinish(i) ==
  /\ fut[i] = "running"
  /\ fut' = [fut EXCEPT ![i] = IF i \in eFails THEN "exc" ELSE "ok"]
  /\ UNCHANGED <<eN, eW, eFails, ePc, eSubmitted, calls, collected>>

\* A variant of the loop body without the try/except around future.result().
CollectUncaught(i) ==
  /\ ePc = "collect"
  /\ fut[i] \in {"ok", "exc"}
  /\ i \notin collected
  /\ collected' = collected \cup {i}
  /\ ePc' = IF fut[i] = "exc" THEN "raised" ELSE ePc
  /\ UNCHANGED <<eN, eW, eFails, eSubmitted, fut, calls>>

\* One iteration of the as_completed loop: future.result() inside
\* try/except Exception, the exception is logged.
Collect(i) ==
  /\ ePc = "collect"
  /\ fut[i] \in {"ok", "exc"}
  /\ i \notin collected
  /\ collected' = collected \cup {i}
  /\ UNCHANGED <<eN, eW, eFails, ePc, eSubmitted, fut, calls>>

\* as_completed is exhausted, the with block shuts the pool down and run
\* returns.
ExitPool ==
  /\ ePc = "collect"
  /\ collected = 1..eN
  /\ Running = {}
  /\ ePc' = "returned"
  /\ UNCHANGED <<eN, eW, eFails, eSubmitted, fut, calls, collected>>

EngineNext ==
  \/ Submit
  \/ \E i \in ItemIds : WorkerStart(i)
  \/ \E i \in ItemIds : WorkerFinish(i)
  \/ \E i \in ItemIds : Collect(i)
  \/ ExitPool

(***************************************************************************)
(* Functional gate: selected/eval_executor.py and core/summary.py.         *)
(***************************************************************************)
NumTests == 3

TestNames == 1..NumTests

Statuses == {"PASSED", "FAILED", "SKIPPED", "ERROR", "UNKNOWN"}

StatusMaps == UNION {[D -> Statuses] : D \in SUBSET TestNames}

NoMap == [n \in {} |-> "PASSED"]

GateIdle ==
  /\ gP = {}
  /\ gF = {}
  /\ gParsed = [exists |-> FALSE, map |-> NoMap]
  /\ gPc = "scored"
  /\ gResult = [run_state |-> FALSE, p2p |-> FALSE, f2p |-> FALSE]
  /\ gScore = 0

\* After run_stage: the parser produced a status map (possibly empty) and
\* it was written, or no file was written (no parser, or parsing raised).
GateInit ==
  /\ gP \in SUBSET TestNames
  /\ gF \in SUBSET TestNames
  /\ \/ gParsed = [exists |-> FALSE, map |-> NoMap]
     \/ \E m \in StatusMaps : gParsed = [exists |-> TRUE, map |-> m]
  /\ gPc = "staged"
  /\ gResult = [run_state |-> FALSE, p2p |-> FALSE, f2p |-> FALSE]
  /\ gScore = 0

passed_keys(data) == {k \in DOMAIN data : data[k] = "PASSED"}

failed_keys(data) == {k \in DOMAIN data : data[k] = "FAILED"}

covers_pass(data, pass_to_pass) ==
  \A it \in pass_to_pass : it \notin failed_keys(data)

\* A variant that accepts every FAIL_TO_PASS name that did not fail.
covers_fail_lenient(data, fail_to_pass) ==
  \A it \in fail_to_pass : it \notin failed_keys(data)

covers_fail(data, fail_to_pass) ==
  \A it \in fail_to_pass : it \in passed_keys(data)

check_pass_coverage(data, pass_to_pass, fail_to_pass) ==
  [p2p |-> covers_pass(data, pass_to_pass),
   f2p |-> covers_fail(data, fail_to_pass)]

\* run_state as main computes it: false when the file is missing or the
\* loaded map is empty.
run_state_of(parsed) == parsed.exists /\ DOMAIN parsed.map # {}

\* main after run_stage: the gate, run_state and result.json.
WriteResult ==
  /\ gPc = "staged"
  /\ LET cov == IF gParsed.exists
                  THEN check_pass_coverage(gParsed.map, gP, gF)
                  ELSE [p2p |-> FALSE, f2p |-> FALSE]
     IN gResult' = [run_state |-> run_state_of(gParsed),
                    p2p |-> cov.p2p, f2p |-> cov.f2p]
  /\ gPc' = "written"
  /\ UNCHANGED <<gP, gF, gParsed, gScore>>

\* ResultSummarizer._get_standard_score on the result.json just written.
standard_score(res) == IF res.p2p /\ res.f2p THEN 1 ELSE 0

Summarize ==
  /\ gPc = "written"
  /\ gScore' = standard_score(gResult)
  /\ gPc' = "scored"
  /\ UNCHANGED <<gP, gF, gParsed, gResult>>

GateNext == WriteResult \/ Summarize

(***************************************************************************)
(* Performance gate: performance_optimization/eval_executor.py.            *)
(* Durations are whole numbers of a time unit; a JSON value that is not a  *)
(* number is [num |-> FALSE].  t1 * 0.8 > t2 is evaluated as               *)
(* t1 * 8 > t2 * 10, which is what the double-precision product gives for  *)
(* whole durations.                                                        *)
(***************************************************************************)
MaxDuration == 5
AccelerateRateTenths == 8
ThresholdTenths == 5

PerfNames == {"x", "y"}

PerfValues ==
  {[num |-> FALSE, v |-> 0]} \cup {[num |-> TRUE, v |-> d] : d \in 0..MaxDuration}

TimingMaps == UNION {[D -> PerfValues] : D \in SUBSET PerfNames}

NoTiming == [n \in {} |-> [num |-> FALSE, v |-> 0]]

PerfIdle ==
  /\ fT1 = NoTiming
  /\ fT2 = NoTiming
  /\ fP = {}
  /\ fF = {}
  /\ fPc = "checked"
  /\ fOut = [pass_ok |-> TRUE, fail_ok |-> TRUE]

\* load_json of both timing files (a missing or broken file loads as {})
\* and the two name lists.
PerfInit ==
  /\ fT1 \in TimingMaps
  /\ fT2 \in TimingMaps
  /\ fP \in SUBSET PerfNames
  /\ fF \in SUBSET PerfNames
  /\ fPc = "loaded"
  /\ fOut = [pass_ok |-> FALSE, fail_ok |-> FALSE]

\* A variant that lets a zero duration pass.
pass_ok_zero_allowed(t2, pass_to_pass) ==
  \A n \in pass_to_pass :
    /\ n \in DOMAIN t2
    /\ t2[n].num
    /\ ~(t2[n].v < 0)

pass_ok(t2, pass_to_pass) ==
  \A n \in pass_to_pass :
    /\ n \in DOMAIN t2
    /\ t2[n].num
    /\ ~(t2[n].v <= 0)

\* A variant that counts an exact 20 percent speed-up as improved.
improved_keys_inclusive(t1, t2) ==
  {n \in DOMAIN t1 :
     /\ n \in DOMAIN t2
     /\ t1[n].num /\ t2[n].num
     /\ ~(t1[n].v <= 0 \/ t2[n].v <= 0)
     /\ t1[n].v * AccelerateRateTenths >= t2[n].v * 10}

improved_keys(t1, t2) ==
  {n \in DOMAIN t1 :
     /\ n \in DOMAIN t2
     /\ t1[n].num /\ t2[n].num
     /\ ~(t1[n].v <= 0 \/ t2[n].v <= 0)
     /\ t1[n].v * AccelerateRateTenths > t2[n].v * 10}

\* A variant whose coverage ratio must exceed the threshold.
fail_ok_strict(improved, fail_to_pass) ==
  IF fail_to_pass # {}
    THEN Cardinality(improved \cap fail_to_pass) * 10
           > ThresholdTenths * Cardinality(fail_to_pass)
    ELSE TRUE

\* coverage_ratio = len(overlap) / len(fail_to_pass) >= threshold
fail_ok(improved, fail_to_pass) ==
  IF fail_to_pass # {}
    THEN Cardinality(improved \cap fail_to_pass) * 10
           >= ThresholdTenths * Cardinality(fail_to_pass)
    ELSE TRUE

PerfCheck ==
  /\ fPc = "loaded"
  /\ fOut' = [pass_ok |-> pass_ok(fT2, fP),
              fail_ok |-> fail_ok(improved_keys(fT1, fT2), fF)]
  /\ fPc' = "checked"
  /\ UNCHANGED <<fT1, fT2, fP, fF>>

PerfNext == PerfCheck

(***************************************************************************)
(* Patch coverage: unit_test_generation/unit_test.py and the summarizer.   *)
(***************************************************************************)
MaxLine == 10
MaxLineB == 2

MainFile == "src/a.py"
SecondFile == "lib/b.ts"
DocsFile == "docs/c.py"
TextFile == "notes.txt"

CovFiles == {MainFile, SecondFile, DocsFile, TextFile}

\* file_path.startswith('docs/') or file_path.endswith('.md')
is_documentation(f) == f = DocsFile

\* _is_supported_file: the path ends in .py, .ts or .js
is_supported_file(f) == f \in {MainFile, SecondFile, DocsFile}

Range(q) == {q[j] : j \in 1..Len(q)}

UpTo(n) == [j \in 1..n |-> j]

\* Report of a file whose lines 1..t are classified and 1..c are covered.
ReportOf(t, c) ==
  [html |-> TRUE, line_coverage |-> [l \in 1..t |-> l <= c]]

NoHtml == [html |-> FALSE, line_coverage |-> [l \in {} |-> FALSE]]

FileInputs(maxn) ==
  {[lines |-> ls, report |-> r] :
     ls \in {UpTo(1), UpTo(maxn), UpTo(maxn) \o <<1>>},
     r \in {NoHtml} \cup {ReportOf(tc[1], tc[2]) :
                            tc \in {x \in (0..maxn) \X (0..maxn) : x[2] <= x[1]}}}

FixedInput == [lines |-> <<1>>, report |-> ReportOf(1, 1)]

EmptyResult ==
  [covered |-> 0, total |-> 0, percentage |-> 0, error |-> FALSE]

CovIdle ==
  /\ cEnv = "ok"
  /\ cPatch = [f \in {} |-> <<>>]
  /\ cReport = [f \in CovFiles |-> NoHtml]
  /\ cPc = "scored"
  /\ cResult = EmptyResult
  /\ cScore = 0

CovInit ==
  /\ cPc = "ready"
  /\ cResult = EmptyResult
  /\ cScore = 0
  /\ \/ /\ cEnv \in {"no_patch_file", "no_coverage_dir"}
        /\ cPatch = [f \in {MainFile} |-> <<1>>]
        /\ cReport = [f \in CovFiles |-> ReportOf(1, 1)]
     \/ /\ cEnv = "ok"
        /\ \E files \in SUBSET CovFiles :
           \E a \in FileInputs(MaxLine), b \in FileInputs(MaxLineB) :
             LET inp(f) == IF f = MainFile THEN a
                           ELSE IF f = SecondFile THEN b ELSE FixedInput
             IN /\ cPatch = [f \in files |-> inp(f).lines]
                /\ cReport = [f \in CovFiles |->
                                IF f \in files THEN inp(f).report ELSE NoHtml]

RECURSIVE SumOver(_, _)
SumOver(S, val) ==
  IF S = {} THEN 0
  ELSE LET f == CHOOSE x \in S : TRUE
       IN val[f] + SumOver(S \ {f}, val)

\* round(covered / total * 100, 2), in hundredths of a percent.
RoundHalfEven(num, den) ==
  LET q == num \div den
      r == num % den
  IN IF 2 * r < den THEN q
     ELSE IF 2 * r > den THEN q + 1
     ELSE IF q % 2 = 0 THEN q ELSE q + 1

\* _analyze_line_coverage over sorted(set(lines))
total_lines(report, lines) ==
  Cardinality({l \in Range(lines) : l \in DOMAIN report.line_coverage})

covered_lines(report, lines) ==
  Cardinality({l \in Range(lines) :
                 l \in DOMAIN report.line_coverage /\ report.line_coverage[l]})

\* A variant of the loop's filter that forgets the documentation paths.
skipped_file_docs_kept(f) == ~is_supported_file(f)

\* The two `continue` tests at the head of the loop over the patch files.
skipped_file(f) == is_documentation(f) \/ ~is_supported_file(f)

\* Files for which _analyze_file_coverage returns a result.
analyzed_files(patch, report) ==
  {f \in DOMAIN patch : ~skipped_file(f) /\ report[f].html}

calculate_patch_coverage(env, patch, report) ==
  IF env # "ok" THEN [EmptyResult EXCEPT !.error = TRUE]
  ELSE IF DOMAIN patch = {} THEN [EmptyResult EXCEPT !.error = TRUE]
  ELSE LET fl == analyzed_files(patch, report)
           cov == SumOver(fl, [f \in fl |-> covered_lines(report[f], patch[f])])
           tot == SumOver(fl, [f \in fl |-> total_lines(report[f], patch[f])])
       IN [covered |-> cov,
           total |-> tot,
           percentage |-> IF tot > 0 THEN RoundHalfEven(cov * 10000, tot) ELSE 0,
           error |-> FALSE]

\* get_coverage_percentage: calculate, then dump patch_coverage_result.json.
Calculate ==
  /\ cPc = "ready"
  /\ cResult' = calculate_patch_coverage(cEnv, cPatch, cReport)
  /\ cPc' = "written"
  /\ UNCHANGED <<cEnv, cPatch, cReport, cScore>>

\* _get_score_test_case_generation: float(percentage) / 100.0
SummarizeCoverage ==
  /\ cPc = "written"
  /\ cScore' = cResult.percentage
  /\ cPc' = "scored"
  /\ UNCHANGED <<cEnv, cPatch, cReport, cResult>>

CovNext == Calculate \/ SummarizeCoverage

(***************************************************************************)
(* Result summarizer: core/summary.py.  Scores are in units of 1/10000,    *)
(* average_score in hundredths.  The scores of the model are 0, 0.5 and 1: *)
(* their sums are exact in double precision, and round(sum / count, 2)     *)
(* then is the quotient rounded to the nearest hundredth, ties to even.    *)
(***************************************************************************)
MaxRows == 4
MaxMixedRows == 2

OpenSources ==
  {"swe-bench-live", "swe-bench-multilingual", "swe-bench-verified",
   "swe-Rebench"}

\* Source tags of the dataset rows of the model: a standard track, the two
\* tracks with their own artifact, one open-source subset.
RowSources ==
  {"selected", "code_understanding", "test_case_generation", "swe-bench-live"}

FileNotFound == "File not found"
NoSuchFile == "[Errno 2] No such file or directory"
DecodeError == "Expecting value: line 1 column 1 (char 0)"

Missing == [kind |-> "missing"]
Unreadable == [kind |-> "unreadable"]

ScoreValues == {0, 5000, 10000}

\* result.json as main writes it (selected/eval_executor.py): parsed file
\* missing, parsed map empty, parsed map not empty.
StandardResults ==
  {[run_state |-> FALSE, PASS_TO_PASS_result |-> FALSE,
    FAIL_TO_PASS_result |-> FALSE]}
  \cup {[run_state |-> FALSE, PASS_TO_PASS_result |-> TRUE,
         FAIL_TO_PASS_result |-> b] : b \in BOOLEAN}
  \cup {[run_state |-> TRUE, PASS_TO_PASS_result |-> a,
         FAIL_TO_PASS_result |-> b] : a, b \in BOOLEAN}

\* The artifacts a row of the given source can have on disk.
Artifacts(source) ==
  {Missing, Unreadable} \cup
  (IF source = "test_case_generation"
     THEN {[kind |-> "json", json |-> [percentage |-> v]] : v \in ScoreValues}
   ELSE IF source = "code_understanding"
     THEN {[kind |-> "json", json |-> [average_score |-> v]] :
             v \in ScoreValues}
   ELSE IF source \in OpenSources
     THEN {[kind |-> "json", json |-> [resolved |-> b]] : b \in BOOLEAN}
   ELSE {[kind |-> "json", json |-> r] : r \in StandardResults})

Dimensions ==
  {[programming_languages |-> "py", programming_scenarios |-> "backend",
    task_types |-> "bugfix"],
   [programming_languages |-> "go", programming_scenarios |-> "backend",
    task_types |-> "feature"],
   [programming_languages |-> "go", programming_scenarios |-> "infra",
    task_types |-> "bugfix"]}

Row(source, dims, art) == [source |-> source, dims |-> dims, art |-> art]

\* Rows of the short datasets: every source with every artifact.
MixedRows ==
  UNION {{Row(src, d, a) :
            d \in {x \in Dimensions : x.task_types = "bugfix"},
            a \in Artifacts(src)} : src \in RowSources}

\* Rows of the longer datasets: a resolved instance, a missing artifact and
\* a half-covered patch.
PlainArtifacts(source) ==
  IF source = "selected"
    THEN {Missing,
          [kind |-> "json",
           json |-> [run_state |-> TRUE, PASS_TO_PASS_result |-> TRUE,
                     FAIL_TO_PASS_result |-> TRUE]]}
    ELSE {[kind |-> "json", json |-> [percentage |-> 5000]]}

PlainRows ==
  UNION {{Row(src, d, a) : d \in Dimensions, a \in PlainArtifacts(src)} :
           src \in {"selected", "test_case_generation"}}

SeqsUpTo(S, n) == UNION {[1..k -> S] : k \in 0..n}

EmptyReport ==
  [overall |-> [count |-> 0, average_score |-> 0],
   programming_languages |-> << >>,
   programming_scenarios |-> << >>,
   task_types |-> << >>]

SumIdle ==
  /\ sData = << >>
  /\ sPc = "reported"
  /\ sRaw = << >>
  /\ sFile = << >>
  /\ sReport = EmptyReport

SumInit ==
  /\ sData \in SeqsUpTo(PlainRows, MaxRows) \cup SeqsUpTo(MixedRows, MaxMixedRows)
  /\ sPc = "start"
  /\ sRaw = << >>
  /\ sFile = << >>
  /\ sReport = EmptyReport

ErrorDetails(msg) == [error |-> msg]

\* _get_standard_score: <<score, details>>
get_standard_score(art) ==
  IF art.kind = "missing" THEN <<0, ErrorDetails(FileNotFound)>>
  ELSE IF art.kind = "unreadable" THEN <<0, ErrorDetails(DecodeError)>>
  ELSE <<IF art.json.PASS_TO_PASS_result /\ art.json.FAIL_TO_PASS_result
           THEN 10000 ELSE 0,
         art.json>>

\* _get_score_code_understanding
get_score_code_understanding(art) ==
  IF art.kind = "missing" THEN <<0, ErrorDetails(FileNotFound)>>
  ELSE IF art.kind = "unreadable" THEN <<0, ErrorDetails(DecodeError)>>
  ELSE <<art.json.average_score, art.json>>

\* _get_score_test_case_generation
get_score_test_case_generation(art) ==
  IF art.kind = "missing" THEN <<0, ErrorDetails(FileNotFound)>>
  ELSE IF art.kind = "unreadable" THEN <<0, ErrorDetails(DecodeError)>>
  ELSE <<art.json.percentage, art.json>>

\* _get_opensource: open() raises for a missing report.json
get_opensource(art) ==
  IF art.kind = "missing" THEN <<0, ErrorDetails(NoSuchFile)>>
  ELSE IF art.kind = "unreadable" THEN <<0, ErrorDetails(DecodeError)>>
  ELSE <<IF art.json.resolved THEN 10000 ELSE 0, art.json>>

score_of(row) ==
  IF row.source = "test_case_generation"
    THEN get_score_test_case_generation(row.art)
  ELSE IF row.source = "code_understanding"
    THEN get_score_code_understanding(row.art)
  ELSE IF row.source \in OpenSources THEN get_opensource(row.art)
  ELSE get_standard_score(row.art)

new_item(row) ==
  [source |-> row.source,
   programming_languages |-> row.dims.programming_languages,
   programming_scenarios |-> row.dims.programming_scenarios,
   task_types |-> row.dims.task_types,
   score |-> score_of(row)[1],
   result_details |-> score_of(row)[2]]

\* A variant of the loop that leaves out the rows without an artifact.
RECURSIVE collect_and_score_present(_)
collect_and_score_present(dataset) ==
  IF dataset = << >> THEN << >>
  ELSE LET rest == collect_and_score_present(Tail(dataset))
       IN IF Head(dataset).art.kind = "missing" THEN rest
          ELSE <<new_item(Head(dataset))>> \o rest

collect_and_score(dataset) ==
  [i \in 1..Len(dataset) |-> new_item(dataset[i])]

RECURSIVE SumScores(_)
SumScores(records) ==
  IF records = << >> THEN 0
  ELSE Head(records).score + SumScores(Tail(records))

\* One aggregator cell after the accumulation loop, formatted.
stats(records) ==
  [count |-> Len(records),
   average_score |-> IF Len(records) > 0
                       THEN RoundHalfEven(SumScores(records),
                                          Len(records) * 100)
                       ELSE 0]

\* A variant that fills every category with the records of all categories.
category_records_all(data, dim, cat) == data

category_records(data, dim, cat) ==
  SelectSeq(data, LAMBDA r : r[dim] = cat)

category_report(data, dim) ==
  [cat \in {data[i][dim] : i \in 1..Len(data)} |->
     stats(category_records(data, dim, cat))]

format_report(data) ==
  [overall |-> stats(data),
   programming_languages |-> category_report(data, "programming_languages"),
   programming_scenarios |-> category_report(data, "programming_scenarios"),
   task_types |-> category_report(data, "task_types")]

CollectAndScore ==
  /\ sPc = "start"
  /\ sRaw' = collect_and_score(sData)
  /\ sPc' = "collected"
  /\ UNCHANGED <<sData, sFile, sReport>>

SaveRawData ==
  /\ sPc = "collected"
  /\ sFile' = sRaw
  /\ sPc' = "saved"
  /\ UNCHANGED <<sData, sRaw, sReport>>

CalculateAndSaveMetrics ==
  /\ sPc = "saved"
  /\ sReport' = format_report(sRaw)
  /\ sPc' = "reported"
  /\ UNCHANGED <<sData, sRaw, sFile>>

SumNext == CollectAndScore \/ SaveRawData \/ CalculateAndSaveMetrics

(***************************************************************************)
(* Log parsers: selected/parsers.py and parse_log of                       *)
(* configuration_deployment/eval_executor.py.  A log line is the test name *)
(* and the result word the parser's pattern captured from it; "noise" is a *)
(* line no pattern of the parser matches.                                  *)
(***************************************************************************)
MaxLogLen == 2

\* Test names; the second one is a case nested under the first one in the
\* "suite > case" form element_plus looks for.
TestCases == {"t", "t > u"}

Parsers ==
  {"systemd", "xnnpack", "protobuf", "matrixone", "prisma", "element_plus",
   "frr", "cd_runelite", "cd_kiota"}

\* The result words of the lines that carry a test name.
NamedWords(parser) ==
  CASE parser = "systemd" -> {"OK", "FAIL", "SKIP", "TIMEOUT"}
    [] parser \in {"xnnpack", "cd_kiota"} ->
         {"Passed", "Failed", "Error", "Skipped", "XFAIL", "Not Run"}
    [] parser = "protobuf" -> {"OK", "PASSED", "FAILED", "SKIPPED"}
    [] parser = "matrixone" ->
         {"Action:pass", "Action:fail", "Action:skip", "Action:run",
          "--- PASS:", "--- FAIL:", "--- SKIP:"}
    [] parser = "prisma" -> {"PASS", "FAIL", "check", "cross"}
    [] parser = "element_plus" -> {"check", "cross", "stderr |"}
    [] parser = "frr" ->
         {"PASSED", "FAILED", "SKIPPED", "ERROR", "XFAIL", "XPASS", "TODO"}
    [] parser = "cd_runelite" -> {"SUCCESS", "FAILURE", "SKIPPED", "RUNNING"}

\* The lines without a test name that the parser reacts to.
BareWords(parser) ==
  CASE parser = "frr" ->
         {"=== 1 passed, 0 failed, 0 skipped", "=== 1 passed, 1 failed, 0 skipped",
          "=== 0 passed, 0 failed, 1 skipped", "=== 0 passed, 0 failed, 0 skipped",
          "FAILURES", "no tests ran"}
    [] parser = "matrixone" -> {"Action:skip Package:p"}
    [] OTHER -> {}

Noise == [name |-> "", word |-> "noise"]

LogLines(parser) ==
  {[name |-> n, word |-> w] : n \in TestCases, w \in NamedWords(parser)}
  \cup {[name |-> "", word |-> w] : w \in BareWords(parser)}
  \cup {Noise}

NoStatus == [k \in {} |-> "PASSED"]

ParseIdle ==
  /\ pParser = "systemd"
  /\ pLog = << >>
  /\ pIdx = 0
  /\ pMap = NoStatus
  /\ pSeen = {}
  /\ pErrs = {}
  /\ pPc = "done"

ParseInit ==
  /\ pParser \in Parsers
  /\ pLog \in SeqsUpTo(LogLines(pParser), MaxLogLen)
  /\ pIdx = 0
  /\ pMap = NoStatus
  /\ pSeen = {}
  /\ pErrs = {}
  /\ pPc = "loop"

ParseState(map, seen, errs) == [map |-> map, seen |-> seen, errs |-> errs]

Put(m, k, v) == [x \in DOMAIN m \cup {k} |-> IF x = k THEN v ELSE m[x]]

\* status_map[name] = status
Assign(st, name, status) == [st EXCEPT !.map = Put(@, name, status)]

\* if status_map.get(name) != 'FAILED': status_map[name] = status
AssignUnlessFailed(st, name, status) ==
  IF name \in DOMAIN st.map /\ st.map[name] = "FAILED" THEN st
  ELSE Assign(st, name, status)

\* if name not in status_map: status_map[name] = status
AssignIfAbsent(st, name, status) ==
  IF name \in DOMAIN st.map THEN st ELSE Assign(st, name, status)

parse_log_systemd(st, line) ==
  CASE line.word = "OK" -> Assign(st, line.name, "PASSED")
    [] line.word \in {"FAIL", "TIMEOUT"} -> Assign(st, line.name, "FAILED")
    [] line.word = "SKIP" -> Assign(st, line.name, "SKIPPED")
    [] OTHER -> st

\* parse_log_xnnpack and the kiota branch of parse_log
parse_log_xnnpack(st, line) ==
  CASE line.word = "Passed" -> Assign(st, line.name, "PASSED")
    [] line.word = "Failed" -> Assign(st, line.name, "FAILED")
    [] line.word = "Error" -> Assign(st, line.name, "ERROR")
    [] line.word = "Skipped" -> Assign(st, line.name, "SKIPPED")
    [] line.word = "XFAIL" -> Assign(st, line.name, "XFAIL")
    [] line.word = "Not Run" -> Assign(st, line.name, "UNKNOWN")
    [] OTHER -> st

parse_log_protobuf(st, line) ==
  IF line.word \notin {"OK", "PASSED", "FAILED", "SKIPPED"} THEN st
  ELSE IF line.name \in st.seen THEN st
  ELSE LET status == IF line.word = "OK" THEN "PASSED" ELSE line.word
       IN [Assign(st, line.name, status) EXCEPT !.seen = @ \cup {line.name}]

parse_log_matrixone(st, line) ==
  CASE line.word = "Action:pass" -> Assign(st, line.name, "PASSED")
    [] line.word = "Action:fail" -> Assign(st, line.name, "FAILED")
    [] line.word = "Action:skip" -> Assign(st, line.name, "SKIPPED")
    [] line.word = "Action:skip Package:p" -> Assign(st, "Package_p", "SKIPPED")
    [] line.word = "--- PASS:" -> AssignIfAbsent(st, line.name, "PASSED")
    [] line.word = "--- FAIL:" -> AssignIfAbsent(st, line.name, "FAILED")
    [] line.word = "--- SKIP:" -> AssignIfAbsent(st, line.name, "SKIPPED")
    [] OTHER -> st

parse_log_prisma(st, line) ==
  CASE line.word \in {"PASS", "check"} ->
         AssignUnlessFailed(st, line.name, "PASSED")
    [] line.word \in {"FAIL", "cross"} ->
         AssignUnlessFailed(st, line.name, "FAILED")
    [] OTHER -> st

parse_log_element_plus(st, line) ==
  CASE line.word = "check" ->
         [AssignUnlessFailed(st, line.name, "PASSED")
            EXCEPT !.seen = @ \cup {line.name}]
    [] line.word = "cross" ->
         [AssignUnlessFailed(st, line.name, "FAILED")
            EXCEPT !.seen = @ \cup {line.name}]
    [] line.word = "stderr |" -> [st EXCEPT !.errs = @ \cup {line.name}]
    [] OTHER -> st

parse_log_frr(st, line) ==
  CASE line.word \in
         {"PASSED", "FAILED", "SKIPPED", "ERROR", "XFAIL", "XPASS", "TODO"} ->
         Assign(st, line.name, line.word)
    [] line.word = "=== 1 passed, 1 failed, 0 skipped" ->
         Assign(st, "TEST_SESSION", "FAILED")
    [] line.word = "=== 0 passed, 0 failed, 1 skipped" ->
         Assign(st, "TEST_SESSION", "SKIPPED")
    [] line.word = "=== 1 passed, 0 failed, 0 skipped" ->
         Assign(st, "TEST_SESSION", "PASSED")
    [] line.word = "=== 0 passed, 0 failed, 0 skipped" ->
         Assign(st, "TEST_SESSION", "UNKNOWN")
    [] line.word = "FAILURES" -> Assign(st, "HAS_FAILURES", "TRUE")
    [] line.word = "no tests ran" -> Assign(st, "NO_TESTS", "TRUE")
    [] OTHER -> st

\* The runelite branch of parse_log (configuration_deployment).
parse_log_runelite(st, line) ==
  CASE line.word = "SUCCESS" -> Assign(st, line.name, "PASSED")
    [] line.word = "FAILURE" -> Assign(st, line.name, "FAILED")
    [] line.word = "SKIPPED" -> Assign(st, line.name, "SKIPPED")
    [] line.word = "RUNNING" -> Assign(st, line.name, "UNKNOWN")
    [] OTHER -> st

\* One iteration of the parser's loop over log.splitlines().
parse_line(parser, st, line) ==
  CASE parser = "systemd" -> parse_log_systemd(st, line)
    [] parser \in {"xnnpack", "cd_kiota"} -> parse_log_xnnpack(st, line)
    [] parser = "protobuf" -> parse_log_protobuf(st, line)
    [] parser = "matrixone" -> parse_log_matrixone(st, line)
    [] parser = "prisma" -> parse_log_prisma(st, line)
    [] parser = "element_plus" -> parse_log_element_plus(st, line)
    [] parser = "frr" -> parse_log_frr(st, line)
    [] parser = "cd_runelite" -> parse_log_runelite(st, line)

\* case_name.startswith(err_case + " >")
StartsWithSuite(case_name, err_case) == case_name = "t > u" /\ err_case = "t"

\* The loop of element_plus over stderr_errors that follows the line loop.
mark_stderr_failures(st) ==
  [k \in DOMAIN st.map |->
     IF \E e \in st.errs :
          \/ e = k
          \/ e \notin DOMAIN st.map /\ k \in st.seen /\ StartsWithSuite(k, e)
       THEN "FAILED" ELSE st.map[k]]

ParseLine ==
  /\ pPc = "loop"
  /\ pIdx < Len(pLog)
  /\ LET st == parse_line(pParser, ParseState(pMap, pSeen, pErrs),
                          pLog[pIdx + 1])
     IN /\ pMap' = st.map
        /\ pSeen' = st.seen
        /\ pErrs' = st.errs
  /\ pIdx' = pIdx + 1
  /\ UNCHANGED <<pParser, pLog, pPc>>

ParseReturn ==
  /\ pPc = "loop"
  /\ pIdx = Len(pLog)
  /\ pMap' = IF pParser = "element_plus"
               THEN mark_stderr_failures(ParseState(pMap, pSeen, pErrs))
               ELSE pMap
  /\ pPc' = "done"
  /\ UNCHANGED <<pParser, pLog, pIdx, pSeen, pErrs>>

ParseNext == ParseLine \/ ParseReturn

(***************************************************************************)
(* The Stage Runner: eval_executor.py of the selected, the                 *)
(* performance_optimization and the configuration_deployment track.        *)
(***************************************************************************)
MaxPolls == 2
MaxOut == 1
BusyPercent == 80
SleepSeconds == 30
TimeoutRc == 124
NoParserRc == 999
NoRc == 0 - 1

RunTracks == {"selected", "performance_optimization", "configuration_deployment"}

Stages == {"stage_d", "stage_e"}

Scripts == Stages \X {"pre", "test"}

\* psutil readings around the 80 percent mark.
LoadValues == {79, 80, 95}

RepoKeys ==
  {<<"systemd">>, <<"element", "-", "plus">>, <<"rust", "-", "clippy">>,
   <<"no", "-", "such">>}

\* The module-level names of the track's parser module: functions first,
\* then the imported modules.
parser_functions(track) ==
  IF track = "selected"
    THEN {<<"parse_log_", "systemd">>, <<"parse_log_", "element", "_", "plus">>,
          <<"parse_log_", "rust", "_", "clippy">>, <<"parse_log">>,
          <<"get_parse_log">>}
    ELSE {<<"parse_log_", "systemd">>, <<"parse_log_", "mypy", "_", "po">>,
          <<"get_parse_log">>}

parser_globals(track) == parser_functions(track) \cup {<<"re">>, <<"json">>}

NoParser == <<"None">>

\* repo_key.replace("-", "_")
normalized(repo_key) ==
  [i \in 1..Len(repo_key) |-> IF repo_key[i] = "-" THEN "_" ELSE repo_key[i]]

func_name(repo_key) == <<"parse_log_">> \o normalized(repo_key)

\* A variant of the lookup that falls back to the systemd parser.
get_parse_log_fallback(track, repo_key) ==
  IF func_name(repo_key) \in parser_functions(track)
    THEN func_name(repo_key)
    ELSE <<"parse_log_", "systemd">>

\* globals().get(func_name), returned if callable, else None.
get_parse_log(track, repo_key) ==
  IF /\ func_name(repo_key) \in parser_globals(track)
     /\ func_name(repo_key) \in parser_functions(track)
    THEN func_name(repo_key)
    ELSE NoParser

\* The repositories parse_log of the configuration_deployment track has a
\* branch for; any other repo_name yields the empty map.
cd_repos == {<<"systemd">>, <<"rust", "-", "clippy">>}

\* The rust-clippy branch ends with an assignment from two names that are
\* not defined.
cd_raising == {<<"rust", "-", "clippy">>}

first_stage(track) ==
  IF track = "performance_optimization" THEN "stage_d" ELSE "stage_e"

NoRunResult == [written |-> FALSE, run_state |-> FALSE]

RunIdle ==
  /\ rTrack = "selected"
  /\ rRepo = <<"systemd">>
  /\ rExists = FALSE
  /\ rHasCmd = FALSE
  /\ rPc = "exit"
  /\ rCont = "absent"
  /\ rAcquired = FALSE
  /\ rPolls = 0
  /\ rLoad = <<0, 0>>
  /\ rSlept = 0
  /\ rCopied = {}
  /\ rStage = "stage_e"
  /\ rScr = [s \in Scripts |-> "none"]
  /\ rLog = [s \in Scripts |-> <<>>]
  /\ rRc = [st \in Stages |-> NoRc]
  /\ rParsed = [st \in Stages |-> "absent"]
  /\ rResult = NoRunResult
  /\ rCleanup = "none"
  /\ rExit = "returned"

\* tasks.py creates a fresh working directory before it starts the process,
\* so no log, parsed file or result.json exists yet.
RunInit ==
  /\ rTrack \in RunTracks
  /\ rRepo \in RepoKeys
  /\ rExists \in BOOLEAN
  /\ rHasCmd \in BOOLEAN
  /\ rPc = "ensure"
  /\ rCont = IF rExists THEN "running" ELSE "absent"
  /\ rAcquired = FALSE
  /\ rPolls = 0
  /\ rLoad = <<0, 0>>
  /\ rSlept = 0
  /\ rCopied = {}
  /\ rStage = first_stage(rTrack)
  /\ rScr = [s \in Scripts |-> "none"]
  /\ rLog = [s \in Scripts |-> <<>>]
  /\ rRc = [st \in Stages |-> NoRc]
  /\ rParsed = [st \in Stages |-> "absent"]
  /\ rResult = NoRunResult
  /\ rCleanup = "none"
  /\ rExit = "none"

rInputs == <<rTrack, rRepo, rExists, rHasCmd>>

rAdmission == <<rPolls, rLoad, rSlept>>

rStageState == <<rStage, rScr, rLog, rRc, rParsed>>

\* An exception leaves main: the __main__ block logs it and calls sys.exit.
Raise ==
  /\ rPc' = "exit"
  /\ rExit' = "raised"

\* docker run -dit ... with check=True.
DockerRun(next) ==
  \/ /\ rCont' = "running"
     /\ rAcquired' = TRUE
     /\ rPc' = next
     /\ UNCHANGED rExit
  \/ /\ Raise
     /\ UNCHANGED <<rCont, rAcquired>>

\* ensure_container up to the admission loop: docker ps, then docker start
\* of an existing container or, off the performance track, docker run.
EnsureContainer ==
  /\ rPc = "ensure"
  /\ \/ /\ Raise
        /\ UNCHANGED <<rCont, rAcquired>>
     \/ /\ rExists
        /\ rAcquired' = TRUE
        /\ rPc' = "staging"
        /\ UNCHANGED <<rCont, rExit>>
     \/ /\ ~rExists
        /\ rTrack = "performance_optimization"
        /\ rPc' = "admission"
        /\ UNCHANGED <<rCont, rAcquired, rExit>>
     \/ /\ ~rExists
        /\ rTrack # "performance_optimization"
        /\ DockerRun("staging")
  /\ UNCHANGED <<rInputs, rAdmission, rCopied, rStageState, rResult, rCleanup>>

\* A variant of the admission test that lets either reading admit.
admits_either(cpu_usage, mem_usage) ==
  cpu_usage < BusyPercent \/ mem_usage < BusyPercent

\* cpu_usage < 80 and mem_usage < 80
admits(cpu_usage, mem_usage) ==
  cpu_usage < BusyPercent /\ mem_usage < BusyPercent

\* One iteration of the while True loop of the performance track's
\* ensure_container.
Poll ==
  /\ rPc = "admission"
  /\ rPolls < MaxPolls
  /\ \E cpu_usage \in LoadValues, mem_usage \in LoadValues :
       /\ rPolls' = rPolls + 1
       /\ rLoad' = <<cpu_usage, mem_usage>>
       /\ IF admits(cpu_usage, mem_usage)
            THEN /\ DockerRun("staging")
                 /\ UNCHANGED rSlept
            ELSE /\ rSlept' = rSlept + SleepSeconds
                 /\ UNCHANGED <<rPc, rCont, rAcquired, rExit>>
  /\ UNCHANGED <<rInputs, rCopied, rStageState, rResult, rCleanup>>

\* The patch files main copies into the container.
patch_files(track) ==
  IF track = "configuration_deployment"
    THEN <<"pr_code.patch", "cd_patch_path.patch">>
    ELSE <<"pr_tests.patch", "pr_code.patch">>

\* main between ensure_container and the first run_stage: load_patch, the
\* read of --test-cmd-file, write_text and the docker_cp_to_container calls
\* (check=True); n is the number of copies that succeed.
StagePatches ==
  /\ rPc = "staging"
  /\ IF ~rHasCmd
       THEN /\ Raise
            /\ UNCHANGED rCopied
       ELSE \E n \in 0..2 :
              /\ rCopied' = {patch_files(rTrack)[i] : i \in 1..n}
              /\ IF n = 2
                   THEN /\ rPc' = "pre"
                        /\ UNCHANGED rExit
                   ELSE Raise
  /\ UNCHANGED <<rInputs, rCont, rAcquired, rAdmission, rStageState, rResult,
                 rCleanup>>

Header == "[EXEC]"

Output == "output"

TimeoutLine == "[ERROR] Command timed out"

\* docker_exec_bash up to subprocess.run: the header goes to the log file
\* and docker exec starts the script, or cannot be spawned.
StartScript(kind, here, next) ==
  /\ rPc = here
  /\ \/ /\ rLog' = [rLog EXCEPT ![<<rStage, kind>>] = Append(@, Header)]
        /\ rScr' = [rScr EXCEPT ![<<rStage, kind>>] = "running"]
        /\ rPc' = next
        /\ UNCHANGED rExit
     \/ /\ rLog' = [rLog EXCEPT ![<<rStage, kind>>] = Append(@, Header)]
        /\ Raise
        /\ UNCHANGED rScr
  /\ UNCHANGED <<rInputs, rCont, rAcquired, rAdmission, rCopied, rStage, rRc,
                 rParsed, rResult, rCleanup>>

\* The running script writes to stdout, which is the log file (followed
\* for the test scripts, whose log the parser reads).
ScriptOutput(kind, here) ==
  /\ rPc = here
  /\ rScr[<<rStage, kind>>] = "running"
  /\ Len(rLog[<<rStage, kind>>]) <= MaxOut
  /\ rLog' = [rLog EXCEPT ![<<rStage, kind>>] = Append(@, Output)]
  /\ UNCHANGED <<rInputs, rPc, rCont, rAcquired, rAdmission, rCopied, rStage,
                 rScr, rRc, rParsed, rResult, rCleanup, rExit>>

\* A variant of the TimeoutExpired handler that starts the log file afresh.
timeout_log_rewritten(lines) == <<TimeoutLine>>

\* The TimeoutExpired handler reopens the log file in append mode.
timeout_log(lines) == Append(lines, TimeoutLine)

\* subprocess.run returns: the script ended with code rc, or the timeout
\* expired and the docker exec client was killed, which may or may not end
\* the script inside the container.
EndScript(kind, here, next) ==
  /\ rPc = here
  /\ rScr[<<rStage, kind>>] = "running"
  /\ \/ \E rc \in {0, 1} :
          /\ rScr' = [rScr EXCEPT ![<<rStage, kind>>] = "finished"]
          /\ rRc' = IF kind = "test" THEN [rRc EXCEPT ![rStage] = rc] ELSE rRc
          /\ UNCHANGED rLog
     \/ \E fate \in {"killed", "orphaned"} :
          /\ rScr' = [rScr EXCEPT ![<<rStage, kind>>] = fate]
          /\ rRc' = IF kind = "test"
                      THEN [rRc EXCEPT ![rStage] = TimeoutRc]
                      ELSE rRc
          /\ rLog' = [rLog EXCEPT ![<<rStage, kind>>] = timeout_log(@)]
  /\ rPc' = next
  /\ UNCHANGED <<rInputs, rCont, rAcquired, rAdmission, rCopied, rStage,
                 rParsed, rResult, rCleanup, rExit>>

StartPre == StartScript("pre", "pre", "pre_wait")

EndPre == EndScript("pre", "pre_wait", "test")

StartTest == StartScript("test", "test", "test_wait")

TestOutput == ScriptOutput("test", "test_wait")

EndTest == EndScript("test", "test_wait", "parse")

\* After run_stage returns: the performance track runs stage_e after
\* stage_d, then main goes on to the gate and result.json.
AfterStage ==
  IF rTrack = "performance_optimization" /\ rStage = "stage_d"
    THEN /\ rStage' = "stage_e"
         /\ rPc' = "pre"
    ELSE /\ rPc' = "result"
         /\ UNCHANGED rStage

\* The tail of run_stage of the selected and performance tracks: the parser
\* lookup, the parse and the parsed file, inside try/except Exception.
ParseLog ==
  /\ rPc = "parse"
  /\ rTrack # "configuration_deployment"
  /\ IF get_parse_log(rTrack, rRepo) = NoParser
       THEN /\ rRc' = [rRc EXCEPT ![rStage] = NoParserRc]
            /\ UNCHANGED rParsed
       ELSE /\ \E content \in {"empty", "nonempty", "absent"} :
                 rParsed' = [rParsed EXCEPT ![rStage] = content]
            /\ UNCHANGED rRc
  /\ AfterStage
  /\ UNCHANGED <<rInputs, rCont, rAcquired, rAdmission, rCopied, rScr, rLog,
                 rResult, rCleanup, rExit>>

\* The tail of run_stage of the configuration_deployment track: parse_log
\* is called outside any try block.
CdParseLog ==
  /\ rPc = "parse"
  /\ rTrack = "configuration_deployment"
  /\ IF rRepo \in cd_raising
       THEN /\ Raise
            /\ UNCHANGED <<rParsed, rStage>>
       ELSE /\ \E content \in IF rRepo \in cd_repos
                                THEN {"empty", "nonempty"}
                                ELSE {"empty"} :
                 rParsed' = [rParsed EXCEPT ![rStage] = content]
            /\ AfterStage
            /\ UNCHANGED rExit
  /\ UNCHANGED <<rInputs, rCont, rAcquired, rAdmission, rCopied, rScr, rLog,
                 rRc, rResult, rCleanup>>

\* run_state as main computes it from parsed_test_patch.json.
run_state_from(parsed) == parsed = "nonempty"

\* main after the last run_stage: the gate, run_state and result.json.
WriteRunResult ==
  /\ rPc = "result"
  /\ rResult' = [written |-> TRUE,
                 run_state |-> run_state_from(rParsed["stage_e"])]
  /\ rPc' = "cleanup"
  /\ UNCHANGED <<rInputs, rCont, rAcquired, rAdmission, rCopied, rStageState,
                 rCleanup, rExit>>

\* The last block of main: docker stop and docker rm -f with check=False
\* inside try/except; main returns afterwards.
CleanupContainer ==
  /\ rPc = "cleanup"
  /\ \/ /\ rCont' = "removed"
        /\ rCleanup' = "removed"
        /\ rScr' = [s \in Scripts |->
                      IF rScr[s] = "orphaned" THEN "killed" ELSE rScr[s]]
     \/ /\ rCleanup' = "failed"
        /\ UNCHANGED <<rCont, rScr>>
  /\ rPc' = "exit"
  /\ rExit' = "returned"
  /\ UNCHANGED <<rInputs, rAcquired, rAdmission, rCopied, rStage, rLog, rRc,
                 rParsed, rResult>>

RunNext ==
  \/ EnsureContainer
  \/ Poll
  \/ StagePatches
  \/ StartPre
  \/ EndPre
  \/ StartTest
  \/ TestOutput
  \/ EndTest
  \/ ParseLog
  \/ CdParseLog
  \/ WriteRunResult
  \/ CleanupContainer

(***************************************************************************)
(* Naming of containers, working directories and scratch files by          *)
(* eval_selected, and the use of the named container by the Stage Runner.  *)
(***************************************************************************)
MaxClock == 1

Callers == {"w1", "w2"}

InstanceIds == {"a", "b"}

RepoNames == {"r1", "r2"}

PullNumbers == {"7", "8"}

WorkItems == [instance_id : InstanceIds, repo_key : RepoNames, pull_number : PullNumbers]

NoName == <<>>

NameIdle ==
  /\ nClock = 0
  /\ nItem = [w \in Callers |-> [instance_id |-> "a", repo_key |-> "r1", pull_number |-> "7"]]
  /\ nPc = [w \in Callers |-> "done"]
  /\ nName = [w \in Callers |-> NoName]
  /\ nContainers = {}
  /\ nLost = [w \in Callers |-> FALSE]

\* The two calls are for WorkItems with different instance_id.
NameInit ==
  /\ nClock = 0
  /\ nItem \in [Callers -> WorkItems]
  /\ nItem["w1"].instance_id # nItem["w2"].instance_id
  /\ nPc = [w \in Callers |-> "named"]
  /\ nName = [w \in Callers |-> NoName]
  /\ nContainers = {}
  /\ nLost = [w \in Callers |-> FALSE]

\* Path(work_root) / instance_id
work_dir(it) == <<"selected", it.instance_id>>

\* f"{repo}-{pr_number}-{time.strftime('%Y%m%d-%H%M%S')}"
container_name(it, now) == <<it.repo_key, it.pull_number, now>>

Tick ==
  /\ nClock < MaxClock
  /\ nClock' = nClock + 1
  /\ UNCHANGED <<nItem, nPc, nName, nContainers, nLost>>

\* eval_selected up to subprocess.run: the command line with the container
\* name, built from repo_key, pull_number and the time of day in seconds.
BuildCommand(w) ==
  /\ nPc[w] = "named"
  /\ nName' = [nName EXCEPT ![w] = container_name(nItem[w], nClock)]
  /\ nPc' = [nPc EXCEPT ![w] = "ensure"]
  /\ UNCHANGED <<nClock, nItem, nContainers, nLost>>

\* ensure_container of the process w started: a container of that name is
\* started if docker ps -a lists it, and created otherwise.
NamedEnsure(w) ==
  /\ nPc[w] = "ensure"
  /\ nContainers' = nContainers \cup {nName[w]}
  /\ nPc' = [nPc EXCEPT ![w] = "using"]
  /\ UNCHANGED <<nClock, nItem, nName, nLost>>

\* The end of main of the process w started: docker stop and docker rm -f
\* of its container name.
NamedCleanup(w) ==
  /\ nPc[w] = "using"
  /\ nContainers' = nContainers \ {nName[w]}
  /\ nLost' = [v \in Callers |->
                 nLost[v] \/ (v # w /\ nPc[v] = "using" /\ nName[v] = nName[w])]
  /\ nPc' = [nPc EXCEPT ![w] = "done"]
  /\ UNCHANGED <<nClock, nItem, nName>>

NameNext ==
  \/ Tick
  \/ \E w \in Callers : BuildCommand(w)
  \/ \E w \in Callers : NamedEnsure(w)
  \/ \E w \in Callers : NamedCleanup(w)

(***************************************************************************)
(* run_code_understanding: the judge loop over the questions of one        *)
(* instance.                                                               *)
(***************************************************************************)
MaxQuestions == 3

\* Scores are kept in hundredths.
JudgeScores == {0, 50, 100}

ApiFailure == <<"exception">>

NoContent == <<"None">>

\* What the chat completion call does: it raises, or returns a message
\* whose content is None or a text, given here word by word ("~~~" is a
\* code-fence line).
Contents ==
  { <<"text">>,
    <<"}", "{">>,
    <<"{", "text", "}">>,
    <<"{", "}">>,
    <<"{", "score", "}">>,
    <<"{", "score", "reasoning", "}">>,
    <<"~~~", "{", "score", "reasoning", "}", "~~~">>,
    <<"text", "{", "score", "}", "text">> }

Replies ==
  {[content |-> c, score |-> 0] : c \in {ApiFailure, NoContent} \cup Contents}
    \cup {[content |-> c, score |-> s] :
            c \in {d \in Contents : \E i \in 1..Len(d) : d[i] = "score"},
            s \in JudgeScores \ {0}}

\* _call_llm: an exception of the client becomes an "[ERROR] ..." text.
call_llm(reply) ==
  IF reply.content = ApiFailure
    THEN <<"[ERROR]", "RESULT: FAIL">>
    ELSE reply.content

\* The opening fence is cut off together with its line.
strip_open(content) ==
  IF Len(content) > 0 /\ content[1] = "~~~" THEN Tail(content) ELSE content

strip_close(content) ==
  IF Len(content) > 0 /\ content[Len(content)] = "~~~"
    THEN SubSeq(content, 1, Len(content) - 1)
    ELSE content

Positions(content, word) == {i \in 1..Len(content) : content[i] = word}

Least(S) == CHOOSE i \in S : \A j \in S : i <= j

Greatest(S) == CHOOSE i \in S : \A j \in S : j <= i

\* The texts json.loads accepts as an object.
JsonObjects ==
  {<<"{", "}">>, <<"{", "score", "}">>, <<"{", "score", "reasoning", "}">>}

JudgeError(q_id) == [q_id |-> q_id, score |-> 0, reasoning |-> "Error", raised |-> FALSE]

\* The body of the try block of _judge_question after the call.
parse_judgement(q_id, response, score) ==
  LET content == strip_close(strip_open(response))
      opens == Positions(content, "{")
      closes == Positions(content, "}")
      body == SubSeq(content, Least(opens), Greatest(closes))
  IN  IF response = NoContent \/ response[1] = "[ERROR]"
        THEN JudgeError(q_id)
        ELSE IF opens = {} \/ closes = {}
          THEN JudgeError(q_id)
          ELSE IF body \notin JsonObjects
            THEN JudgeError(q_id)
            ELSE [q_id |-> q_id,
                  score |-> IF "score" \in {body[i] : i \in 1..Len(body)}
                              THEN score ELSE 0,
                  reasoning |-> IF "reasoning" \in {body[i] : i \in 1..Len(body)}
                                  THEN "text" ELSE "",
                  raised |-> FALSE]

\* A variant without the try/except: a failure leaves the function.
judge_question_unguarded(q_id, reply) ==
  LET r == parse_judgement(q_id, call_llm(reply), reply.score)
  IN  IF r.reasoning = "Error" THEN [r EXCEPT !.raised = TRUE] ELSE r

\* _judge_question: every exception of the try block yields score 0.0 and
\* the reasoning "Error: ...".
judge_question(q_id, reply) ==
  parse_judgement(q_id, call_llm(reply), reply.score)

NoArtifact == [written |-> FALSE, sum |-> 0, count |-> 0, question_scores |-> {}]

JudgeIdle ==
  /\ jN = 0
  /\ jPatch = FALSE
  /\ jIdx = 0
  /\ jReplies = <<>>
  /\ jResults = <<>>
  /\ jPc = "returned"
  /\ jArtifact = NoArtifact

JudgeInit ==
  /\ jN \in 0..MaxQuestions
  /\ jPatch \in BOOLEAN
  /\ jIdx = 0
  /\ jReplies = <<>>
  /\ jResults = <<>>
  /\ jPc = "start"
  /\ jArtifact = NoArtifact

\* run_code_understanding before the loop: a blank model_patch or an empty
\* question list returns 0.0 at once.
JudgeStart ==
  /\ jPc = "start"
  /\ jPc' = IF ~jPatch \/ jN = 0 THEN "returned" ELSE "loop"
  /\ UNCHANGED <<jN, jPatch, jIdx, jReplies, jResults, jArtifact>>

\* One iteration of the loop over the questions.
JudgeOne ==
  /\ jPc = "loop"
  /\ jIdx < jN
  /\ \E reply \in Replies :
       LET result == judge_question(jIdx + 1, reply)
       IN  /\ jReplies' = Append(jReplies, reply)
           /\ IF result.raised
                THEN /\ jPc' = "raised"
                     /\ UNCHANGED jResults
                ELSE /\ jResults' = Append(jResults, result)
                     /\ UNCHANGED jPc
  /\ jIdx' = jIdx + 1
  /\ UNCHANGED <<jN, jPatch, jArtifact>>

SumOfScores(results) ==
  SumOver(1..Len(results), [i \in 1..Len(results) |-> results[i].score])

\* After the loop: the average and the <safe_id>.json file.  The average
\* sum(scores) / len(scores) is kept as the pair of sum and count.
JudgeSave ==
  /\ jPc = "loop"
  /\ jIdx = jN
  /\ jArtifact' = [written |-> TRUE,
                   sum |-> SumOfScores(jResults),
                   count |-> Len(jResults),
                   question_scores |->
                     {<<jResults[i].q_id, jResults[i].score, jResults[i].reasoning>> :
                        i \in 1..Len(jResults)}]
  /\ jPc' = "written"
  /\ UNCHANGED <<jN, jPatch, jIdx, jReplies, jResults>>

JudgeNext == JudgeStart \/ JudgeOne \/ JudgeSave

(***************************************************************************)
(* EvaluatorDispatcher.dispatch: the choice of the evaluator.              *)
(***************************************************************************)
MaxRouted == 2

\* item.get("source", ""): the key may be missing.
NoSourceKey == "<missing>"

SourceEntries ==
  {"performance_optimization", "selected", "code_understanding",
   "test_case_generation", "configuration_deployment",
   "Selected", "SELECTED", "Code_Understanding", "swe-bench-live", "other",
   "", NoSourceKey}

\* str.lower() on the source entries above.
lower(s) ==
  CASE s = "Selected" -> "selected"
    [] s = "SELECTED" -> "selected"
    [] s = "Code_Understanding" -> "code_understanding"
    [] OTHER -> s

\* The branch of dispatch for a source: the evaluator and the
\* sub-directory of context.work_dir it is given.
Routes ==
  { [source |-> "performance_optimization",
     evaluator |-> "eval_performance_optimization",
     root |-> "/performance_optimization"],
    [source |-> "selected",
     evaluator |-> "eval_selected",
     root |-> "/selected"],
    [source |-> "code_understanding",
     evaluator |-> "eval_code_understanding",
     root |-> "/code_understanding"],
    [source |-> "test_case_generation",
     evaluator |-> "eval_unit_test_generation",
     root |-> "/test_case_generation"],
    [source |-> "configuration_deployment",
     evaluator |-> "eval_configuration_deployment",
     root |-> "/configuration_deployment"] }

source_of(entry) == IF entry = NoSourceKey THEN "" ELSE entry

\* A variant that compares the source as written.
route_as_written(entry) == {r \in Routes : r.source = source_of(entry)}

\* source = item.get("source", "").lower() and the if/elif chain.
route(entry) == {r \in Routes : r.source = lower(source_of(entry))}

RouteIdle ==
  /\ dItems = <<>>
  /\ dIdx = 0
  /\ dCalls = <<>>
  /\ dRaised = <<>>

RouteInit ==
  /\ dItems \in UNION {[1..n -> SourceEntries] : n \in 0..MaxRouted}
  /\ dIdx = 0
  /\ dCalls = <<>>
  /\ dRaised = <<>>

\* One dispatch call: the chosen evaluator is called and returns or raises;
\* dispatch logs and re-raises.  No branch matches: a warning is logged.
DispatchItem ==
  /\ dIdx < Len(dItems)
  /\ dIdx' = dIdx + 1
  /\ dCalls' = Append(dCalls, {[evaluator |-> r.evaluator, root |-> r.root] :
                                 r \in route(dItems[dIdx + 1])})
  /\ \E raises \in IF route(dItems[dIdx + 1]) = {} THEN {FALSE} ELSE BOOLEAN :
       dRaised' = Append(dRaised, raises)
  /\ UNCHANGED dItems

RouteNext == DispatchItem

(***************************************************************************)
(* The pool workers of one batch on the performance track: the skip        *)
(* checks, the admission loop of ensure_container and the scripts          *)
(* docker_exec_bash runs, between the start of dispatch and its return.    *)
(***************************************************************************)
MaxBatch == 1

\* The docker_exec_bash calls of one performance run: the setup script and
\* the test script of stage_d and of stage_e.
ScriptsPerRun == 4

BatchIdle ==
  /\ wPc = [i \in ItemIds |-> "exited"]
  /\ wLeft = [i \in ItemIds |-> 0]
  /\ wHang = [i \in ItemIds |-> FALSE]
  /\ wEnd = [i \in ItemIds |-> "none"]

\* EngineInit restricts the engine's variables; the batch has at most
\* MaxBatch items.
BatchInit ==
  /\ eN <= MaxBatch
  /\ wPc = [i \in ItemIds |-> "idle"]
  /\ wLeft = [i \in ItemIds |-> 0]
  /\ wHang = [i \in ItemIds |-> FALSE]
  /\ wEnd = [i \in ItemIds |-> "none"]

WorkerExit(i, how) ==
  /\ wPc' = [wPc EXCEPT ![i] = "exited"]
  /\ wEnd' = [wEnd EXCEPT ![i] = how]

\* eval_performance_optimization up to ensure_container: the item is
\* skipped, or the Stage Runner starts and finds the container present or
\* enters the admission loop.
WorkerEnter(i) ==
  /\ fut[i] = "running"
  /\ wPc[i] = "idle"
  /\ \/ /\ i \notin eFails
        /\ WorkerExit(i, "skip")
        /\ UNCHANGED wLeft
     \/ /\ \E first \in {"admission", "script"} :
             wPc' = [wPc EXCEPT ![i] = first]
        /\ wLeft' = [wLeft EXCEPT ![i] = ScriptsPerRun]
        /\ UNCHANGED wEnd
  /\ UNCHANGED <<wHang, engineVars>>

\* A poll of the admission loop that finds the host below the mark: docker
\* run creates the container or fails.
PollAdmit(i) ==
  /\ wPc[i] = "admission"
  /\ \E cpu_usage \in LoadValues, mem_usage \in LoadValues :
       admits(cpu_usage, mem_usage)
  /\ \/ /\ i \notin eFails
        /\ wPc' = [wPc EXCEPT ![i] = "script"]
        /\ UNCHANGED wEnd
     \/ /\ i \in eFails
        /\ WorkerExit(i, "error")
  /\ UNCHANGED <<wLeft, wHang, engineVars>>

\* A poll that finds the host busy: time.sleep(30) follows.
PollBusy(i) ==
  /\ wPc[i] = "admission"
  /\ \E cpu_usage \in LoadValues, mem_usage \in LoadValues :
       ~admits(cpu_usage, mem_usage)
  /\ wPc' = [wPc EXCEPT ![i] = "sleep"]
  /\ UNCHANGED <<wLeft, wHang, wEnd, engineVars>>

\* time.sleep(30) returns and the loop polls again.
WakeUp(i) ==
  /\ wPc[i] = "sleep"
  /\ wPc' = [wPc EXCEPT ![i] = "admission"]
  /\ UNCHANGED <<wLeft, wHang, wEnd, engineVars>>

\* docker_exec_bash starts a script, which may outlast the timeout.
ScriptStart(i) ==
  /\ wPc[i] = "script"
  /\ wPc' = [wPc EXCEPT ![i] = "waiting"]
  /\ \E hangs \in BOOLEAN : wHang' = [wHang EXCEPT ![i] = hangs]
  /\ UNCHANGED <<wLeft, wEnd, engineVars>>

\* subprocess.run is over; after the last script main writes result.json,
\* cleans up and the evaluator function returns or, for a failing item,
\* raises.
ScriptOver(i) ==
  /\ wLeft' = [wLeft EXCEPT ![i] = @ - 1]
  /\ wHang' = [wHang EXCEPT ![i] = FALSE]
  /\ IF wLeft[i] > 1
       THEN /\ wPc' = [wPc EXCEPT ![i] = "script"]
            /\ UNCHANGED wEnd
       ELSE WorkerExit(i, IF i \in eFails THEN "error" ELSE "result")
  /\ UNCHANGED engineVars

\* The script ends before the timeout.
ScriptCompletes(i) ==
  /\ wPc[i] = "waiting"
  /\ ~wHang[i]
  /\ ScriptOver(i)

\* A variant of subprocess.run without the timeout argument.
ScriptNeverTimesOut(i) ==
  /\ wPc[i] = "waiting"
  /\ wHang[i]
  /\ UNCHANGED vars

\* The timeout expires: subprocess.run kills the docker exec client and
\* docker_exec_bash returns 124.
ScriptTimesOut(i) ==
  /\ wPc[i] = "waiting"
  /\ wHang[i]
  /\ ScriptOver(i)

\* dispatch returns or re-raises once the evaluator function is over.
WorkerReturn(i) ==
  /\ wPc[i] = "exited"
  /\ WorkerFinish(i)
  /\ UNCHANGED batchVars

BatchNext ==
  \/ Submit /\ UNCHANGED batchVars
  \/ \E i \in ItemIds : WorkerStart(i) /\ UNCHANGED batchVars
  \/ \E i \in ItemIds : WorkerEnter(i)
  \/ \E i \in ItemIds : PollAdmit(i)
  \/ \E i \in ItemIds : PollBusy(i)
  \/ \E i \in ItemIds : WakeUp(i)
  \/ \E i \in ItemIds : ScriptStart(i)
  \/ \E i \in ItemIds : ScriptCompletes(i)
  \/ \E i \in ItemIds : ScriptTimesOut(i)
  \/ \E i \in ItemIds : WorkerReturn(i)
  \/ \E i \in ItemIds : Collect(i) /\ UNCHANGED batchVars
  \/ ExitPool /\ UNCHANGED batchVars

(***************************************************************************)
(* Specifications.                                                         *)
(***************************************************************************)
otherVars == <<runVars, nameVars, judgeVars, routeVars, batchVars>>

OtherIdle == RunIdle /\ NameIdle /\ JudgeIdle /\ RouteIdle /\ BatchIdle

CoreIdle ==
  TaskInit /\ EngineIdle /\ GateIdle /\ PerfIdle /\ CovIdle /\ SumIdle /\ ParseIdle

Init ==
  TaskInit /\ EngineIdle /\ GateIdle /\ PerfIdle /\ CovIdle /\ SumIdle /\ ParseIdle /\ OtherIdle

Next ==
  TaskNext /\ UNCHANGED <<engineVars, gateVars, perfVars, covVars, sumVars, parseVars, otherVars>>

Spec == Init /\ [][Next]_vars

EngineSpecInit ==
  EngineInit /\ TaskInit /\ GateIdle /\ PerfIdle /\ CovIdle /\ SumIdle /\ ParseIdle /\ OtherIdle

EngineSpecNext ==
  EngineNext /\ UNCHANGED <<taskVars, gateVars, perfVars, covVars, sumVars, parseVars, otherVars>>

EngineSpec == EngineSpecInit /\ [][EngineSpecNext]_vars

GateSpecInit ==
  GateInit /\ TaskInit /\ EngineIdle /\ PerfIdle /\ CovIdle /\ SumIdle /\ ParseIdle /\ OtherIdle

GateSpecNext ==
  GateNext /\ UNCHANGED <<taskVars, engineVars, perfVars, covVars, sumVars, parseVars, otherVars>>

GateSpec == GateSpecInit /\ [][GateSpecNext]_vars

PerfSpecInit ==
  PerfInit /\ TaskInit /\ EngineIdle /\ GateIdle /\ CovIdle /\ SumIdle /\ ParseIdle /\ OtherIdle

PerfSpecNext ==
  PerfNext /\ UNCHANGED <<taskVars, engineVars, gateVars, covVars, sumVars, parseVars, otherVars>>

PerfSpec == PerfSpecInit /\ [][PerfSpecNext]_vars

CovSpecInit ==
  CovInit /\ TaskInit /\ EngineIdle /\ GateIdle /\ PerfIdle /\ SumIdle /\ ParseIdle /\ OtherIdle

CovSpecNext ==
  CovNext /\ UNCHANGED <<taskVars, engineVars, gateVars, perfVars, sumVars, parseVars, otherVars>>

CovSpec == CovSpecInit /\ [][CovSpecNext]_vars

SumSpecInit ==
  /\ SumInit
  /\ TaskInit /\ EngineIdle /\ GateIdle /\ PerfIdle /\ CovIdle /\ ParseIdle /\ OtherIdle

SumSpecNext ==
  /\ SumNext
  /\ UNCHANGED <<taskVars, engineVars, gateVars, perfVars, covVars, parseVars, otherVars>>

SumSpec == SumSpecInit /\ [][SumSpecNext]_vars

ParseSpecInit ==
  /\ ParseInit
  /\ TaskInit /\ EngineIdle /\ GateIdle /\ PerfIdle /\ CovIdle /\ SumIdle /\ OtherIdle

ParseSpecNext ==
  /\ ParseNext
  /\ UNCHANGED <<taskVars, engineVars, gateVars, perfVars, covVars, sumVars, otherVars>>

ParseSpec == ParseSpecInit /\ [][ParseSpecNext]_vars

RunSpecInit ==
  RunInit /\ CoreIdle /\ NameIdle /\ JudgeIdle /\ RouteIdle /\ BatchIdle

RunSpecNext ==
  RunNext /\ UNCHANGED <<coreVars, nameVars, judgeVars, routeVars, batchVars>>

RunSpec == RunSpecInit /\ [][RunSpecNext]_vars

NameSpecInit ==
  NameInit /\ CoreIdle /\ RunIdle /\ JudgeIdle /\ RouteIdle /\ BatchIdle

NameSpecNext ==
  NameNext /\ UNCHANGED <<coreVars, runVars, judgeVars, routeVars, batchVars>>

NameSpec == NameSpecInit /\ [][NameSpecNext]_vars

JudgeSpecInit ==
  JudgeInit /\ CoreIdle /\ RunIdle /\ NameIdle /\ RouteIdle /\ BatchIdle

JudgeSpecNext ==
  JudgeNext /\ UNCHANGED <<coreVars, runVars, nameVars, routeVars, batchVars>>

JudgeSpec == JudgeSpecInit /\ [][JudgeSpecNext]_vars

RouteSpecInit ==
  RouteInit /\ CoreIdle /\ RunIdle /\ NameIdle /\ JudgeIdle /\ BatchIdle

RouteSpecNext ==
  RouteNext /\ UNCHANGED <<coreVars, runVars, nameVars, judgeVars, batchVars>>

RouteSpec == RouteSpecInit /\ [][RouteSpecNext]_vars

BatchOthers ==
  <<taskVars, gateVars, perfVars, covVars, sumVars, parseVars, runVars, nameVars,
    judgeVars, routeVars>>

BatchSpecInit ==
  /\ EngineInit /\ BatchInit
  /\ TaskInit /\ GateIdle /\ PerfIdle /\ CovIdle /\ SumIdle /\ ParseIdle
  /\ RunIdle /\ NameIdle /\ JudgeIdle /\ RouteIdle

BatchSpecNext == BatchNext /\ UNCHANGED BatchOthers

\* The pool and each evaluator process keep running (weak fairness on their
\* steps); a Stage Runner that polls again and again finds the host below
\* the mark at some poll (strong fairness on the admitting poll).
EngineSteps ==
  /\ \/ Submit
     \/ \E i \in ItemIds : WorkerStart(i)
     \/ \E i \in ItemIds : Collect(i)
     \/ ExitPool
  /\ UNCHANGED <<batchVars, BatchOthers>>

WorkerSteps(i) ==
  /\ \/ WorkerEnter(i)
     \/ WakeUp(i)
     \/ ScriptStart(i)
     \/ ScriptCompletes(i)
     \/ ScriptTimesOut(i)
     \/ WorkerReturn(i)
  /\ UNCHANGED BatchOthers

BatchFairness ==
  /\ WF_vars(EngineSteps)
  /\ \A i \in 1..MaxBatch : WF_vars(WorkerSteps(i))
  /\ \A i \in 1..MaxBatch : SF_vars(PollAdmit(i) /\ UNCHANGED BatchOthers)

BatchSpec == BatchSpecInit /\ [][BatchSpecNext]_vars /\ BatchFairness

(***************************************************************************)
(* Properties of the skip / lock protocol (specification Spec).            *)
(***************************************************************************)
LockKeys == LockTracks

\* C1 as stated: under every interleaving at most one worker ever launches
\* the evaluator subprocess for an instance of the selected or
\* performance_optimization track.
C1_SingleFlight == \A k \in LockKeys : launches[k] <= 1

\* C1 amended: a worker dispatched for an instance of the selected or
\* performance_optimization track after the instance's working directory
\* was created never gets past the directory check: it skips and does not
\* launch the evaluator.
C1_LateWorkerSkips ==
  \A w \in Workers :
    (item[w] \in LockKeys /\ "dir" \in snap[w]) =>
      /\ pc[w] \in {"check_dir", "done"}
      /\ pc[w] = "done" => outcome[w] = "skip"
      /\ ~ran[w]

C1_Witness ==
  \E w \in Workers :
    /\ item[w] \in LockKeys
    /\ "dir" \in snap[w]
    /\ pc[w] = "done"
    /\ outcome[w] = "skip"
    /\ launches[item[w]] = 1

\* C2 as stated: on every track, a dispatch made while the item's result
\* artifact or lock marker exists runs no evaluation, creates, overwrites
\* or deletes no file of the instance and ends as a skip.
C2_RedispatchIsNoOp ==
  \A w \in Workers :
    (snap[w] \cap {"result", "lock"} # {}) =>
      /\ ~ran[w]
      /\ ~touched[w]
      /\ outcome[w] # "raised"

(***************************************************************************)
(* Properties of the engine (specification EngineSpec).                    *)
(***************************************************************************)
\* C3: run never raises, dispatch is invoked at most once per item, and
\* when run has returned every item of the dataset was dispatched exactly
\* once and ran to completion, whichever items raised.
C3_EveryItemDispatchedOnce ==
  /\ ePc # "raised"
  /\ \A i \in ItemIds : calls[i] <= 1
  /\ ePc = "returned" =>
       \A i \in 1..eN :
         /\ calls[i] = 1
         /\ fut[i] = (IF i \in eFails THEN "exc" ELSE "ok")
         /\ i \in collected

C3_Witness ==
  /\ ePc = "returned"
  /\ eN = MaxItems
  /\ eFails # {}
  /\ eFails # 1..eN

(***************************************************************************)
(* Properties of the functional gate (specification GateSpec).             *)
(***************************************************************************)
StatusOf(n) ==
  IF n \in DOMAIN gParsed.map THEN gParsed.map[n] ELSE "ABSENT"

\* C4: once result.json is written from a status map S,
\* pass_to_pass_ok = no name of PASS_TO_PASS is FAILED in S and
\* fail_to_pass_ok = every name of FAIL_TO_PASS is PASSED in S; the
\* summarizer's score is 1 if both hold and 0 otherwise.
C4_FunctionalGate ==
  (gParsed.exists /\ gPc \in {"written", "scored"}) =>
    /\ gResult.p2p = (\A n \in gP : StatusOf(n) # "FAILED")
    /\ gResult.f2p = (\A n \in gF : StatusOf(n) = "PASSED")
    /\ gPc = "scored" =>
         gScore = (IF /\ \A n \in gP : StatusOf(n) # "FAILED"
                      /\ \A n \in gF : StatusOf(n) = "PASSED"
                   THEN 1 ELSE 0)
    /\ (gPc = "scored" /\ gP = {1, 2} /\ gF = {3}) =>
         /\ (\A n \in 1..3 : StatusOf(n) = "PASSED") => gScore = 1
         /\ (StatusOf(2) = "FAILED") => gScore = 0

C4_Witness ==
  /\ gPc = "scored"
  /\ gP = {1, 2}
  /\ gF = {3}
  /\ gParsed.exists
  /\ StatusOf(1) = "PASSED"
  /\ StatusOf(2) = "FAILED"
  /\ StatusOf(3) = "PASSED"
  /\ gScore = 0

\* C5 as stated: whenever the status map is empty or missing, result.json
\* records run_state = false and the instance's score is 0, whatever
\* PASS_TO_PASS and FAIL_TO_PASS are.
C5_EmptyStatusMapScoresZero ==
  (gPc = "scored" /\ (~gParsed.exists \/ DOMAIN gParsed.map = {})) =>
    /\ gResult.run_state = FALSE
    /\ gScore = 0

(***************************************************************************)
(* Properties of the performance gate (specification PerfSpec).            *)
(***************************************************************************)
Positive(t, n) == n \in DOMAIN t /\ t[n].num /\ t[n].v > 0

Improved(n) ==
  /\ Positive(fT1, n)
  /\ Positive(fT2, n)
  /\ fT1[n].v * 8 > fT2[n].v * 10

ImprovedInF == {n \in fF : Improved(n)}

\* C6: fail_to_pass_ok is true iff FAIL_TO_PASS is empty or the improved
\* names of FAIL_TO_PASS (present in T1 and T2 with positive numeric
\* durations, T1 * 0.8 > T2) are at least half of FAIL_TO_PASS.
C6_FailToPassRatio ==
  fPc = "checked" =>
    fOut.fail_ok = (fF = {} \/ 2 * Cardinality(ImprovedInF) >= Cardinality(fF))

C6_Witness ==
  /\ fPc = "checked"
  /\ fF = {"x"}
  /\ Positive(fT1, "x") /\ Positive(fT2, "x")
  /\ fT1["x"].v * 8 = fT2["x"].v * 10
  /\ ~fOut.fail_ok

\* C7 as stated: with FAIL_TO_PASS = {x, y} and only x improved the gate
\* returns fail_to_pass_ok = false.
C7_HalfImprovedFails ==
  (fPc = "checked" /\ fF = {"x", "y"} /\ Improved("x") /\ ~Improved("y")) =>
    fOut.fail_ok = FALSE

\* C7 amended: with FAIL_TO_PASS = {x, y} and only x improved the coverage
\* ratio is 0.5, which meets the threshold 0.5: the gate returns
\* fail_to_pass_ok = true; with none of the two improved it returns false.
C7_HalfImprovedPasses ==
  (fPc = "checked" /\ fF = {"x", "y"} /\ ~Improved("y")) =>
    fOut.fail_ok = Improved("x")

C7_Witness ==
  /\ fPc = "checked"
  /\ fF = {"x", "y"}
  /\ Improved("x")
  /\ ~Improved("y")
  /\ fOut.fail_ok

\* C8: pass_to_pass_ok is true iff every name of PASS_TO_PASS is a key of
\* T2 whose value is a number greater than 0, whatever T1 and FAIL_TO_PASS.
C8_PassToPassStillRuns ==
  fPc = "checked" => fOut.pass_ok = (\A n \in fP : Positive(fT2, n))

C8_Witness ==
  /\ fPc = "checked"
  /\ fP = {"x"}
  /\ "x" \in DOMAIN fT2
  /\ fT2["x"] = [num |-> TRUE, v |-> 0]
  /\ Positive(fT1, "x")
  /\ fF = {"y"}
  /\ ~fOut.pass_ok

(***************************************************************************)
(* Properties of the coverage score (specification CovSpec).               *)
(***************************************************************************)
Counted == {f \in DOMAIN cPatch : is_supported_file(f) /\ ~is_documentation(f)}

TrackedOf(f) ==
  {l \in Range(cPatch[f]) : l \in DOMAIN cReport[f].line_coverage}

CoveredOf(f) == {l \in TrackedOf(f) : cReport[f].line_coverage[l]}

TrackedSum == SumOver(Counted, [f \in Counted |-> Cardinality(TrackedOf(f))])

CoveredSum == SumOver(Counted, [f \in Counted |-> Cardinality(CoveredOf(f))])

\* C9 as stated: the score equals covered / tracked over the supported,
\* non-documentation files of the patch (0 when nothing is tracked).
C9_ScoreIsExactRatio ==
  (cPc = "scored" /\ cEnv = "ok") =>
    IF TrackedSum > 0
      THEN cScore * TrackedSum = CoveredSum * 10000
      ELSE cScore = 0

Abs(x) == IF x < 0 THEN -x ELSE x

\* C9 amended: the score is covered / tracked rounded to four decimals
\* (the percentage is rounded to two decimals before it is divided by 100),
\* 0 when nothing is tracked, and exactly 0.7 for 7 covered of 10 tracked.
C9_ScoreIsRoundedRatio ==
  (cPc = "scored" /\ cEnv = "ok") =>
    /\ IF TrackedSum > 0
         THEN 2 * Abs(cScore * TrackedSum - CoveredSum * 10000) <= TrackedSum
         ELSE cScore = 0
    /\ (TrackedSum = 10 /\ CoveredSum = 7) => cScore = 7000

C9_Witness ==
  /\ cPc = "scored"
  /\ cEnv = "ok"
  /\ DOMAIN cPatch = {MainFile, DocsFile, TextFile}
  /\ TrackedSum = 10
  /\ CoveredSum = 7
  /\ cScore = 7000

\* C10 as stated: a patch with zero trackable lines yields a result with an
\* explicit error detail and the score 0.
C10_ZeroTrackedHasError ==
  (cPc = "scored" /\ TrackedSum = 0) =>
    /\ cResult.error
    /\ cScore = 0

(***************************************************************************)
(* Properties of the result summarizer (specification SumSpec).            *)
(***************************************************************************)
DimKeys == {"programming_languages", "programming_scenarios", "task_types"}

Rows == 1..Len(sData)

CountsOf(dim) == [c \in DOMAIN sReport[dim] |-> sReport[dim][c].count]

\* C11: raw_data.jsonl holds one record per dataset row, in order and with
\* the row's source and categories, overall.count is the number of rows and
\* the category counts of each dimension add up to it, whatever artifact
\* each row has on disk.
C11_EveryRowReportedOnce ==
  sPc = "reported" =>
    /\ Len(sFile) = Len(sData)
    /\ \A i \in Rows :
         /\ sFile[i].source = sData[i].source
         /\ \A d \in DimKeys : sFile[i][d] = sData[i].dims[d]
    /\ sReport.overall.count = Len(sData)
    /\ \A d \in DimKeys :
         SumOver(DOMAIN sReport[d], CountsOf(d)) = Len(sData)

C11_Witness ==
  /\ sPc = "reported"
  /\ Len(sData) = 4
  /\ sData[2].art = Missing
  /\ sData[4].art = Missing
  /\ sData[3].source = "test_case_generation"
  /\ sReport.overall.count = 4
  /\ DOMAIN sReport.programming_languages = {"py", "go"}

\* C12: a row of any source whose result artifact does not exist gets the
\* score 0 and result_details.error = "File not found".
C12_MissingArtifactFileNotFound ==
  sPc # "start" =>
    \A i \in Rows :
      sData[i].art = Missing =>
        /\ sRaw[i].score = 0
        /\ "error" \in DOMAIN sRaw[i].result_details
        /\ sRaw[i].result_details.error = "File not found"

\* A failure degraded the row: its artifact is missing or unreadable, or
\* its result.json records run_state = false.
Degraded(row) ==
  \/ row.art.kind \in {"missing", "unreadable"}
  \/ /\ row.source = "selected"
     /\ row.art.kind = "json"
     /\ ~row.art.json.run_state

\* C13: whenever a failure degraded a row's score to 0, the record's
\* result_details has an error field.
C13_DegradedRowHasError ==
  sPc # "start" =>
    \A i \in Rows :
      (Degraded(sData[i]) /\ sRaw[i].score = 0) =>
        "error" \in DOMAIN sRaw[i].result_details

Carrying(dim, cat) == {i \in Rows : sData[i].dims[dim] = cat}

ScoreSum(I) == SumOver(I, [i \in I |-> sRaw[i].score])

\* avg (in hundredths) is sum / n (sum in 1/10000) rounded to 2 decimals.
RoundedAverage(avg, sum, n) ==
  IF n = 0 THEN avg = 0
  ELSE 2 * Abs(avg * 100 * n - sum) <= 100 * n

\* C14: overall.average_score is the sum of the scores over the record
\* count rounded to 2 decimals, each dimension lists exactly the values its
\* records carry, each with the count and the rounded average of the
\* records carrying it; scores [1,0,1,0] give the overall average 0.5.
C14_Aggregation ==
  sPc = "reported" =>
    /\ RoundedAverage(sReport.overall.average_score, ScoreSum(Rows), Len(sData))
    /\ \A d \in DimKeys :
         /\ DOMAIN sReport[d] = {sData[i].dims[d] : i \in Rows}
         /\ \A c \in DOMAIN sReport[d] :
              /\ sReport[d][c].count = Cardinality(Carrying(d, c))
              /\ RoundedAverage(sReport[d][c].average_score,
                                ScoreSum(Carrying(d, c)),
                                Cardinality(Carrying(d, c)))
    /\ (Len(sData) = 4 /\ ScoreSum(Rows) = 20000) =>
         sReport.overall.average_score = 50

C14_Witness ==
  /\ sPc = "reported"
  /\ [i \in Rows |-> sRaw[i].score] = <<10000, 0, 10000, 0>>
  /\ [i \in Rows |-> sRaw[i].programming_languages] = <<"py", "py", "go", "go">>
  /\ sReport.overall = [count |-> 4, average_score |-> 50]
  /\ sReport.programming_languages =
       [c \in {"py", "go"} |-> [count |-> 2, average_score |-> 50]]

(***************************************************************************)
(* Properties of the log parsers (specification ParseSpec).                *)
(***************************************************************************)
\* The words by which a line of the parser's log format reports a failed
\* and a passed test.
FailWords(parser) ==
  CASE parser = "systemd" -> {"FAIL", "TIMEOUT"}
    [] parser \in {"xnnpack", "cd_kiota"} -> {"Failed"}
    [] parser = "protobuf" -> {"FAILED"}
    [] parser = "matrixone" -> {"Action:fail", "--- FAIL:"}
    [] parser = "prisma" -> {"FAIL", "cross"}
    [] parser = "element_plus" -> {"cross"}
    [] parser = "frr" -> {"FAILED"}
    [] parser = "cd_runelite" -> {"FAILURE"}

PassWords(parser) ==
  CASE parser = "systemd" -> {"OK"}
    [] parser \in {"xnnpack", "cd_kiota"} -> {"Passed"}
    [] parser = "protobuf" -> {"OK", "PASSED"}
    [] parser = "matrixone" -> {"Action:pass", "--- PASS:"}
    [] parser = "prisma" -> {"PASS", "check"}
    [] parser = "element_plus" -> {"check"}
    [] parser = "frr" -> {"PASSED"}
    [] parser = "cd_runelite" -> {"SUCCESS"}

\* Line i reports a word of `first` for a test and the later line j a word
\* of `second` for the same test.
Sequel(i, j, first, second) ==
  /\ i < j
  /\ pLog[i].word \in first
  /\ pLog[j].word \in second
  /\ pLog[i].name = pLog[j].name

FinalIsFailed(name) == name \in DOMAIN pMap /\ pMap[name] = "FAILED"

\* C15: when a line reports a test as FAILED and a later line reports the
\* same test as PASSED, the returned status map has FAILED for it.
C15_FailedThenPassedStaysFailed ==
  pPc = "done" =>
    \A i, j \in 1..Len(pLog) :
      Sequel(i, j, FailWords(pParser), PassWords(pParser)) =>
        FinalIsFailed(pLog[i].name)

\* C16: when a line yields PASSED for a test and a later line says FAILED
\* for the same test, the returned status map has FAILED for it.
C16_PassedThenFailedEndsFailed ==
  pPc = "done" =>
    \A i, j \in 1..Len(pLog) :
      Sequel(i, j, PassWords(pParser), FailWords(pParser)) =>
        FinalIsFailed(pLog[i].name)

\* C17: every value of the returned status map is one of PASSED, FAILED,
\* SKIPPED, ERROR, UNKNOWN.
C17_StatusVocabulary ==
  pPc = "done" => \A k \in DOMAIN pMap : pMap[k] \in Statuses

(***************************************************************************)
(* Properties of the worker functions' artifacts, lock and cleanup         *)
(* (specification Spec).                                                   *)
(***************************************************************************)
\* C18: a worker that was dispatched, did not skip and returned leaves the
\* result artifact of its instance on disk.
C18_ResultArtifactAfterRun ==
  \A w \in Workers :
    (pc[w] = "done" /\ outcome[w] = "ran") => "result" \in fs[item[w]]

\* C19 as stated: on the selected and performance_optimization tracks the
\* lock marker exists whenever a worker's evaluator subprocess is running.
C19_LockHeldWhileRunning ==
  \A w \in Workers :
    (item[w] \in LockKeys /\ pc[w] = "running") => "lock" \in fs[item[w]]

BeforeLock == {"check_dir", "check_result", "check_lock", "mkdir", "write_lock"}

Working == {"write_scratch", "launch", "running", "finally"}

\* C19 amended: the lock write is attempted before any scratch file is
\* written or the subprocess is launched, and when that write succeeded and
\* no other worker got past the skip checks of the same instance, the
\* marker exists from then on until the worker's finally block has run.
C19_LockHeldBySoleOwner ==
  \A w \in Workers :
    item[w] \in LockKeys =>
      /\ pc[w] \in BeforeLock => (scratch[w] = {} /\ ~ran[w])
      /\ (pc[w] \in Working /\ locked[w] /\ entered[item[w]] = 1) =>
           "lock" \in fs[item[w]]

C19_Witness ==
  \E w, v \in Workers :
    /\ w # v
    /\ item[w] \in LockKeys
    /\ item[v] = item[w]
    /\ pc[w] = "running"
    /\ locked[w]
    /\ entered[item[w]] = 1
    /\ "lock" \in fs[item[w]]
    /\ pc[v] = "done"
    /\ outcome[v] = "skip"

ContainerTracks ==
  {"selected", "performance_optimization", "configuration_deployment"}

\* C20: on the container tracks, when a worker that got past the skip
\* checks leaves its function (by return or by exception), none of its
\* scratch files and no lock marker of its instance exists.
C20_GuaranteedCleanup ==
  [][\A w \in Workers :
       (/\ item[w] \in ContainerTracks
        /\ pc[w] # "done"
        /\ pc'[w] = "done"
        /\ outcome'[w] \in {"ran", "raised"})
       => (scratch'[w] = {} /\ "lock" \notin fs'[item[w]])]_vars

(***************************************************************************)
(* Properties of the Stage Runner (specification RunSpec).                 *)
(***************************************************************************)
\* C21 as stated: when the process of a Stage Runner that acquired a
\* container exits, on whatever path, its cleanup block (docker stop and
\* docker rm -f) has run.
C21_CleanupOnEveryExit ==
  (rPc = "exit" /\ rAcquired) => rCleanup # "none"

TimedOut(s) == rScr[s] = "running" /\ rScr'[s] \in {"killed", "orphaned"}

Unregistered ==
  /\ rTrack \in {"selected", "performance_optimization"}
  /\ func_name(rRepo) \notin parser_functions(rTrack)

\* C23: the lookup returns the function named after the repo_key or the
\* not-found value, never another function; for an unregistered repo_key
\* the parse step of run_stage raises nothing, writes no parsed file and
\* returns 999, main goes on, and the result.json it writes has
\* run_state = false.
C23_ParserNotFound ==
  [][/\ \A track \in RunTracks, repo_key \in RepoKeys :
          get_parse_log(track, repo_key) \in {func_name(repo_key), NoParser}
     /\ (Unregistered /\ rPc = "parse") =>
          /\ rRc'[rStage] = NoParserRc
          /\ rParsed' = rParsed
          /\ rExit' = rExit
          /\ rPc' = IF rTrack = "performance_optimization" /\ rStage = "stage_d"
                      THEN "pre" ELSE "result"
     /\ (Unregistered /\ rPc = "result") =>
          /\ rResult' = [written |-> TRUE, run_state |-> FALSE]
          /\ rExit' = rExit
    ]_vars

C23_Witness ==
  /\ rPc = "exit"
  /\ rExit = "returned"
  /\ rTrack = "selected"
  /\ rRepo = <<"no", "-", "such">>
  /\ rRc["stage_e"] = NoParserRc
  /\ rParsed["stage_e"] = "absent"
  /\ rResult = [written |-> TRUE, run_state |-> FALSE]

Starts(s) == rScr[s] = "none" /\ rScr'[s] = "running"

\* The scripts still at work inside the container.
AtWork(scr) == {s \in Scripts : scr[s] \in {"running", "orphaned"}}

\* C24 as stated: a test script starts only when both patch files are in
\* the container and the stage's setup script has finished; at most one
\* script of the run is at work at any time; and the setup script of
\* stage_e starts only when both scripts of stage_d have finished.
C24_StrictStageOrder ==
  [][/\ \A st \in Stages :
          Starts(<<st, "test">>) =>
            /\ Cardinality(rCopied) = 2
            /\ rScr[<<st, "pre">>] = "finished"
     /\ Cardinality(AtWork(rScr')) <= 1
     /\ (rTrack = "performance_optimization" /\ Starts(<<"stage_e", "pre">>)) =>
          /\ rScr[<<"stage_d", "pre">>] = "finished"
          /\ rScr[<<"stage_d", "test">>] = "finished"
    ]_vars

(***************************************************************************)
(* Properties of the naming (specification NameSpec).                      *)
(***************************************************************************)
InUse(w) == nPc[w] = "using"

\* C25 as stated: two calls for WorkItems with different instance_id never
\* hold the same container name or working directory, and no Stage Runner
\* removes a container that another one is using.
C25_NothingShared ==
  \A w, v \in Callers :
    (w # v /\ nItem[w].instance_id # nItem[v].instance_id) =>
      /\ work_dir(nItem[w]) # work_dir(nItem[v])
      /\ (InUse(w) /\ InUse(v)) => nName[w] # nName[v]
      /\ ~nLost[w]

Polled == rPc = "admission" /\ rPolls' = rPolls + 1

Created == rCont = "absent" /\ rCont' = "running"

\* C26: on the performance track, with no container of the requested name,
\* a container is created only in a poll step whose CPU and memory readings
\* are both below 80, and a poll with a reading of 80 or more creates
\* nothing, sleeps 30 seconds and leaves ensure_container in its loop.
C26_Admission ==
  [][/\ (rTrack = "performance_optimization" /\ Created) =>
          /\ Polled
          /\ rLoad'[1] < BusyPercent /\ rLoad'[2] < BusyPercent
          /\ rSlept' = rSlept
     /\ (Polled /\ (rLoad'[1] >= BusyPercent \/ rLoad'[2] >= BusyPercent)) =>
          /\ rCont' = "absent"
          /\ ~rAcquired'
          /\ rSlept' = rSlept + SleepSeconds
          /\ rPc' = "admission"
    ]_vars

C26_Witness ==
  /\ rTrack = "performance_optimization"
  /\ rCont = "running"
  /\ rAcquired
  /\ rPolls = 2
  /\ rSlept = SleepSeconds
  /\ rLoad = <<79, 79>>

(***************************************************************************)
(* Properties of the judge loop (specification JudgeSpec).                 *)
(***************************************************************************)
\* The judge call failed, or its text holds no JSON object.
JudgeFailed(reply) ==
  reply.content \in
    {ApiFailure, NoContent, <<"text">>, <<"}", "{">>, <<"{", "text", "}">>}

ScoreGiven(reply) == IF JudgeFailed(reply) THEN 0 ELSE reply.score

\* C27: no exception leaves _judge_question; every question judged so far
\* has one result, with score 0 and an error text as reasoning exactly
\* when its judge call failed or gave no JSON; and the artifact, once
\* written, covers all questions and its average is the sum of all scores,
\* zeros included, over the number of questions.
C27_JudgeFailureIsLocal ==
  /\ jPc # "raised"
  /\ Len(jResults) = Len(jReplies)
  /\ \A i \in 1..Len(jReplies) :
       /\ jResults[i].q_id = i
       /\ jResults[i].score = ScoreGiven(jReplies[i])
       /\ (jResults[i].reasoning = "Error") <=> JudgeFailed(jReplies[i])
  /\ jPc = "written" =>
       /\ Len(jResults) = jN
       /\ jArtifact.written
       /\ jArtifact.count = jN
       /\ jArtifact.sum =
            SumOver(1..jN, [i \in 1..jN |-> ScoreGiven(jReplies[i])])
       /\ Cardinality(jArtifact.question_scores) = jN

C27_Witness ==
  /\ jPc = "written"
  /\ jN = 3
  /\ jReplies[1].content = ApiFailure
  /\ jReplies[2].content = <<"text">>
  /\ jReplies[3] = [content |-> <<"{", "score", "}">>, score |-> 100]
  /\ jArtifact.sum = 100
  /\ jArtifact.count = 3

(***************************************************************************)
(* Properties of the routing (specification RouteSpec).                    *)
(***************************************************************************)
KnownSources ==
  {"performance_optimization", "selected", "code_understanding",
   "test_case_generation", "configuration_deployment"}

\* The evaluator the spec names for a track.
EvaluatorOf(source) ==
  CASE source = "performance_optimization" -> "eval_performance_optimization"
    [] source = "selected" -> "eval_selected"
    [] source = "code_understanding" -> "eval_code_understanding"
    [] source = "test_case_generation" -> "eval_unit_test_generation"
    [] source = "configuration_deployment" -> "eval_configuration_deployment"

\* The source entries that read as a track tag when case is ignored.
TagOf(entry) ==
  CASE entry \in KnownSources -> entry
    [] entry \in {"Selected", "SELECTED"} -> "selected"
    [] entry = "Code_Understanding" -> "code_understanding"
    [] OTHER -> "none"

\* C28: every dispatch whose source, lower-cased, is one of the five track
\* tags calls exactly that track's evaluator, once, with the work
\* sub-directory of that name; for every other source it calls no
\* evaluator and does not raise.
C28_Routing ==
  /\ Len(dCalls) = dIdx /\ Len(dRaised) = dIdx
  /\ \A i \in 1..dIdx :
       IF TagOf(dItems[i]) \in KnownSources
         THEN dCalls[i] = {[evaluator |-> EvaluatorOf(TagOf(dItems[i])),
                            root |-> "/" \o TagOf(dItems[i])]}
         ELSE dCalls[i] = {} /\ ~dRaised[i]

C28_Witness ==
  /\ dIdx = 2
  /\ dItems = <<"Selected", "swe-bench-live">>
  /\ dCalls = <<{[evaluator |-> "eval_selected", root |-> "/selected"]}, {}>>
  /\ dRaised = <<FALSE, FALSE>>

(***************************************************************************)
(* Further properties of the skip checks (specification Spec).             *)
(***************************************************************************)
OnLockTrack(w) == item[w] \in LockTracks /\ pc[w] # "idle"

\* C29 as stated: the result.json check and the lock check never decide: a
\* worker that got past the directory check finds neither file.
C29_OnlyDirectoryDecides ==
  \A w \in Workers :
    OnLockTrack(w) =>
      /\ pc[w] = "check_result" => "result" \notin fs[item[w]]
      /\ pc[w] = "check_lock" => "lock" \notin fs[item[w]]

\* C29 amended: result.json and the lock exist only inside an existing
\* working directory, and a worker dispatched when the directory exists is
\* skipped at the directory check, whatever else exists, without creating
\* a file or starting the evaluator.
C29_ExistingDirectorySkips ==
  /\ \A k \in LockKeys : fs[k] # {} => "dir" \in fs[k]
  /\ \A w \in Workers :
       (OnLockTrack(w) /\ "dir" \in snap[w]) =>
         /\ pc[w] \in {"check_dir", "done"}
         /\ ~ran[w] /\ ~touched[w]
         /\ pc[w] = "done" => outcome[w] = "skip"

C29_Witness ==
  \E w \in Workers :
    /\ OnLockTrack(w)
    /\ pc[w] = "done"
    /\ outcome[w] = "skip"
    /\ snap[w] = {"dir"}
    /\ launches[item[w]] = 1
    /\ fs[item[w]] = {"dir"}

====
